---- MODULE Spec2Model ----
(***************************************************************************)
(* Model of the trace file I/O subsystem of asam-osi-utilities: the        *)
(* single-channel binary (.osi), text (.txth) and MCAP (.mcap) readers and *)
(* writers, the reader factory and the file analyzer.                      *)
(*                                                                         *)
(* Strings the code inspects character by character (paths, file names)    *)
(* are sequences of one-character strings.  File contents are sequences of *)
(* bytes (0..255) for .osi files, sequences of text lines for .txth files  *)
(* and records of the container engine for .mcap files.                    *)
(***************************************************************************)
EXTENDS Integers, Sequences, FiniteSets, TLC

VARIABLES
    codec,   \* codec whose reader/writer pair acts in this behaviour
    phase,   \* "write": the writer object lives; "read": it was destroyed
             \* and the reader object lives
    fs,      \* file system: path -> file
    br,      \* SingleChannelBinaryTraceFileReader
    bw,      \* SingleChannelBinaryTraceFileWriter
    tr,      \* TXTHTraceFileReader
    tw,      \* TXTHTraceFileWriter
    mr,      \* MCAPTraceFileReader
    mw,      \* MCAPTraceFileWriter
    last,    \* the last call: operation and result
    fin,     \* argument of a call on a free function or static method
    fout     \* its outcome; for the MCAP writer: whether AddFileMetadata
             \* has returned true for a net.asam.osi.trace record on the
             \* writer (history, not read by any operation)

vars == <<codec, phase, fs, br, bw, tr, tw, mr, mw, last, fin, fout>>

(***************************************************************************)
(* Bounds                                                                  *)
(***************************************************************************)
\* number of WriteMessage calls a writer makes in one behaviour
MaxWrites == 2

\* number of well-formed frames of an analysed file
MaxFrames == 5

(***************************************************************************)
(* Generic helpers                                                         *)
(***************************************************************************)
Min(a, b) == IF a < b THEN a ELSE b

\* index of the last occurrence of c in s, 0 when absent (std::string::rfind)
RECURSIVE RFind(_, _, _)
RFind(s, c, i) ==
    IF i = 0 THEN 0
    ELSE IF s[i] = c THEN i
    ELSE RFind(s, c, i - 1)

\* s contains key as a contiguous substring (std::string::find != npos)
Contains(s, key) ==
    \E i \in 1..(Len(s) - Len(key) + 1) : SubSeq(s, i, i + Len(key) - 1) = key

(***************************************************************************)
(* std::filesystem::path decomposition                                     *)
(***************************************************************************)
\* path::filename(): the component after the last directory separator
Filename(p) == SubSeq(p, RFind(p, "/", Len(p)) + 1, Len(p))

\* path::extension(): from the rightmost period of the filename to its end;
\* "." and ".." have none and a leading period does not start an extension
Extension(p) ==
    LET f == Filename(p)
        i == RFind(f, ".", Len(f))
    IN  IF f = <<".">> \/ f = <<".", ".">> THEN <<>>
        ELSE IF i <= 1 THEN <<>>
        ELSE SubSeq(f, i, Len(f))

ExtOsi  == <<".", "o", "s", "i">>
ExtMcap == <<".", "m", "c", "a", "p">>
ExtTxth == <<".", "t", "x", "t", "h">>

(***************************************************************************)
(* Message Type Registry (Reader.h)                                        *)
(***************************************************************************)
kUnknown == "kUnknown"

ReaderTopLevelMessage ==
    { kUnknown, "kGroundTruth", "kSensorData", "kSensorView",
      "kSensorViewConfiguration", "kHostVehicleData", "kTrafficCommand",
      "kTrafficCommandUpdate", "kTrafficUpdate", "kMotionRequest",
      "kStreamingUpdate" }

kFileNameMessageTypeMap ==
    { [key |-> <<"_", "g", "t", "_">>,      value |-> "kGroundTruth"],
      [key |-> <<"_", "s", "d", "_">>,      value |-> "kSensorData"],
      [key |-> <<"_", "s", "v", "_">>,      value |-> "kSensorView"],
      [key |-> <<"_", "s", "v", "c", "_">>, value |-> "kSensorViewConfiguration"],
      [key |-> <<"_", "h", "v", "d", "_">>, value |-> "kHostVehicleData"],
      [key |-> <<"_", "t", "c", "_">>,      value |-> "kTrafficCommand"],
      [key |-> <<"_", "t", "c", "u", "_">>, value |-> "kTrafficCommandUpdate"],
      [key |-> <<"_", "t", "u", "_">>,      value |-> "kTrafficUpdate"],
      [key |-> <<"_", "m", "r", "_">>,      value |-> "kMotionRequest"],
      [key |-> <<"_", "s", "u", "_">>,      value |-> "kStreamingUpdate"] }

\* The loop over kFileNameMessageTypeMap stops at the first entry whose key
\* occurs in the file name.  The map is a std::unordered_map, whose iteration
\* order is unspecified: any entry whose key occurs can be the first found.
FilenameKinds(p) ==
    LET hits == { e \in kFileNameMessageTypeMap : Contains(Filename(p), e.key) }
    IN  IF hits = {} THEN { kUnknown } ELSE { e.value : e \in hits }

(***************************************************************************)
(* TraceFileReaderFactory::createReader (Reader.cpp)                       *)
(***************************************************************************)
\* createReader with the .osi and .mcap branches exchanged
createReaderExchanged(path) ==
    IF Extension(path) = ExtOsi THEN "MCAPTraceFileReader"
    ELSE IF Extension(path) = ExtMcap THEN "SingleChannelBinaryTraceFileReader"
    ELSE IF Extension(path) = ExtTxth THEN "TXTHTraceFileReader"
    ELSE "invalid_argument"

\* TraceFileReaderFactory::createReader: the class of the reader returned,
\* or "invalid_argument" when it throws
createReader(path) ==
    IF Extension(path) = ExtOsi THEN "SingleChannelBinaryTraceFileReader"
    ELSE IF Extension(path) = ExtMcap THEN "MCAPTraceFileReader"
    ELSE IF Extension(path) = ExtTxth THEN "TXTHTraceFileReader"
    ELSE "invalid_argument"

(***************************************************************************)
(* Protobuf wire format, as far as the codecs depend on it: a top-level    *)
(* message with an optional Timestamp submessage {int64 seconds = 1;       *)
(* uint32 nanos = 2}.  The timestamp is field 2 of every top-level message *)
(* except HostVehicleData, where it is field 10.                           *)
(*                                                                         *)
(* A decoded integer is kept as its base-128 digits, least significant     *)
(* first, without trailing zero digits (the varint groups): the values of  *)
(* 64-bit fields do not fit the integers of the model checker.             *)
(***************************************************************************)
RECURSIVE NatToVal(_)
NatToVal(n) == IF n = 0 THEN <<>> ELSE <<n % 128>> \o NatToVal(n \div 128)

RECURSIVE StripZeros(_)
StripZeros(g) ==
    IF g = <<>> THEN <<>>
    ELSE IF g[Len(g)] = 0 THEN StripZeros(SubSeq(g, 1, Len(g) - 1))
    ELSE g

\* the low 64 bits of the groups of a varint (ten groups, the tenth has 1 bit)
Val64(g) ==
    StripZeros([i \in 1..Min(Len(g), 10) |-> IF i = 10 THEN g[i] % 2 ELSE g[i]])

\* the low 32 bits (five groups, the fifth has 4 bits)
Val32(g) ==
    StripZeros([i \in 1..Min(Len(g), 5) |-> IF i = 5 THEN g[i] % 16 ELSE g[i]])

RECURSIVE ValToNatRec(_, _)
ValToNatRec(v, i) ==
    IF i > Len(v) THEN 0 ELSE v[i] + 128 * ValToNatRec(v, i + 1)

\* value of a digit sequence, or 2^31 - 1 when it does not fit 31 bits
ValToNat(v) ==
    IF Len(v) > 5 \/ (Len(v) = 5 /\ v[5] >= 8) THEN 2147483647
    ELSE ValToNatRec(v, 1)

\* varint encoding of a value given by its digits
VarintOfVal(v) ==
    IF v = <<>> THEN <<0>>
    ELSE [i \in 1..Len(v) |-> IF i < Len(v) THEN v[i] + 128 ELSE v[i]]

Varint(n) == VarintOfVal(NatToVal(n))

\* decodes the varint starting at index i of b (at most ten bytes)
RECURSIVE ReadVarintRec(_, _, _)
ReadVarintRec(b, i, k) ==
    IF i > Len(b) \/ k > 10 THEN [ok |-> FALSE, groups |-> <<>>, next |-> i]
    ELSE IF b[i] < 128 THEN [ok |-> TRUE, groups |-> <<b[i]>>, next |-> i + 1]
    ELSE [ReadVarintRec(b, i + 1, k + 1) EXCEPT !.groups = <<b[i] - 128>> \o @]

ReadVarint(b, i) == ReadVarintRec(b, i, 1)

WireVarint == 0
WireFixed64 == 1
WireLengthDelimited == 2
WireFixed32 == 5

TimestampFieldOf(kind) == IF kind = "kHostVehicleData" THEN 10 ELSE 2

NoTimestamp == [present |-> FALSE, seconds |-> 0, nanos |-> 0]

\* Timestamp::SerializeToString: the fields that are set, in field order
SerializeTimestamp(ts) ==
    <<8>> \o Varint(ts.seconds) \o <<16>> \o Varint(ts.nanos)

\* T::SerializeToString / SerializeAsString of a top-level message m
Serialize(m) ==
    IF ~m.ts.present THEN <<>>
    ELSE LET body == SerializeTimestamp(m.ts)
         IN  <<TimestampFieldOf(m.kind) * 8 + WireLengthDelimited>>
                 \o Varint(Len(body)) \o body

\* field number of a tag given by its varint groups (tag >> 3, 29 bits)
TagFieldNumber(g) ==
    (g[1] \div 8)
    + 16 * ValToNatRec([i \in 1..(Min(Len(g), 5) - 1) |->
                           IF i = 4 THEN g[5] % 16 ELSE g[i + 1]], 1)

\* wire type of a tag (tag & 7)
TagWireType(g) == g[1] % 8

\* The generated parser, on the fields of b in [i, end].  sub is the number
\* of the field parsed as a nested Timestamp (top level), or 0 inside the
\* Timestamp itself, where the varint fields 1 and 2 are stored in acc[1]
\* and acc[2].  acc[0] is non-empty once a Timestamp field has been seen.
\* Fields the message does not know, or whose wire type differs from the
\* declared one, are skipped by wire type; a truncated field, a zero tag or
\* an invalid wire type fails the parse.
RECURSIVE ParseFields(_, _, _, _, _)
ParseFields(b, i, end, sub, acc) ==
    IF i > end THEN [ok |-> TRUE, acc |-> acc]
    ELSE
    LET buf == SubSeq(b, 1, end)
        t == ReadVarint(buf, i)
        fieldno == TagFieldNumber(t.groups)
        wt == TagWireType(t.groups)
        bad == [ok |-> FALSE, acc |-> acc]
    IN  IF ~t.ok \/ Len(t.groups) > 5 \/ fieldno = 0 THEN bad
        ELSE IF wt = WireVarint THEN
            LET v == ReadVarint(buf, t.next)
            IN  IF ~v.ok THEN bad
                ELSE ParseFields(b, v.next, end, sub,
                        IF sub = 0 /\ fieldno \in {1, 2}
                        THEN [acc EXCEPT ![fieldno] = v.groups] ELSE acc)
        ELSE IF wt = WireFixed64 THEN
            IF t.next + 8 - 1 > end THEN bad
            ELSE ParseFields(b, t.next + 8, end, sub, acc)
        ELSE IF wt = WireFixed32 THEN
            IF t.next + 4 - 1 > end THEN bad
            ELSE ParseFields(b, t.next + 4, end, sub, acc)
        ELSE IF wt = WireLengthDelimited THEN
            LET l == ReadVarint(buf, t.next)
                n == ValToNat(Val64(l.groups))
            IN  IF ~l.ok \/ Len(l.groups) > 5 \/ n > end - l.next + 1 THEN bad
                ELSE IF sub # 0 /\ fieldno = sub THEN
                    LET inner == ParseFields(b, l.next, l.next + n - 1, 0, acc)
                    IN  IF ~inner.ok THEN bad
                        ELSE ParseFields(b, l.next + n, end, sub,
                                [inner.acc EXCEPT ![0] = <<1>>])
                ELSE ParseFields(b, l.next + n, end, sub, acc)
        ELSE bad

\* T::ParseFromArray for the top-level message type of kind: the decoded
\* message, with timestamp().seconds() / nanos() as 64 / 32 bit values
ParseFromArray(kind, b) ==
    LET r == ParseFields(b, 1, Len(b), TimestampFieldOf(kind),
                         [f \in 0..2 |-> <<>>])
    IN  [ok |-> r.ok,
         message |-> [kind |-> kind,
                      has_timestamp |-> r.acc[0] # <<>>,
                      seconds |-> Val64(r.acc[1]),
                      nanos |-> Val32(r.acc[2])]]

(***************************************************************************)
(* Files and streams                                                       *)
(***************************************************************************)
PathGt      == <<"a", "_", "g", "t", "_">> \o ExtOsi
PathPlain   == <<"a">> \o ExtOsi
PathTwo     == <<"a", "_", "g", "t", "_", "h", "v", "d", "_">> \o ExtOsi
PathBin     == <<"a", "_", "g", "t", "_", ".", "b", "i", "n">>
PathMissing == <<"m", "_", "g", "t", "_">> \o ExtOsi
PathLocked  == <<"l", "_", "g", "t", "_">> \o ExtOsi
PathNoDir   == <<"n", "/", "a", "_", "g", "t", "_">> \o ExtOsi

BinPaths ==
    { PathGt, PathPlain, PathTwo, PathBin, PathMissing, PathLocked, PathNoDir }

PathTxthGt      == <<"a", "_", "g", "t", "_">> \o ExtTxth
PathTxthPlain   == <<"a">> \o ExtTxth
PathTxthMissing == <<"m", "_", "g", "t", "_">> \o ExtTxth
PathTxthTwo     == <<"a", "_", "g", "t", "_", "h", "v", "d", "_">> \o ExtTxth

TxthPaths == { PathTxthGt, PathTxthPlain, PathTxthMissing, PathTxthTwo }

PathMcap        == <<"a">> \o ExtMcap
PathMcapMissing == <<"m">> \o ExtMcap

McapPaths == { PathMcap, PathMcapMissing }

AllPaths == BinPaths \cup TxthPaths \cup McapPaths

\* A file: data is its content; written lists the messages for which a
\* WriteMessage call on the writer that created the file returned true
\* (history, not read by any operation).
NoFile == [exists |-> FALSE, readable |-> FALSE, data |-> <<>>, written |-> <<>>]
File(d) == [exists |-> TRUE, readable |-> TRUE, data |-> d, written |-> <<>>]

\* std::filesystem::exists
exists(p) == fs[p].exists

\* an output file can be created at p: p names a file in an existing
\* directory (the working directory is the only directory of the model)
Creatable(p) == p # <<>> /\ Filename(p) = p

\* a default-constructed std::ifstream
IfstreamDefault ==
    [is_open |-> FALSE, path |-> <<>>, pos |-> 0,
     failbit |-> FALSE, eofbit |-> FALSE]

\* std::ifstream(path, mode)
IfstreamOpen(p) ==
    IF fs[p].exists /\ fs[p].readable
    THEN [IfstreamDefault EXCEPT !.is_open = TRUE, !.path = p]
    ELSE [IfstreamDefault EXCEPT !.failbit = TRUE]

\* a close that keeps the file open
StreamCloseKeeping(s) == s

\* basic_ifstream::close: fails, setting failbit, when no file is open
StreamClose(s) ==
    IF s.is_open THEN [s EXCEPT !.is_open = FALSE, !.path = <<>>, !.pos = 0]
    ELSE [s EXCEPT !.failbit = TRUE]

\* operator bool of a stream: !fail()
StreamOk(s) == ~s.failbit

StreamGood(s) == ~s.failbit /\ ~s.eofbit

\* bytes of the open file of s
StreamData(s) == IF s.is_open THEN fs[s.path].data ELSE <<>>

\* a peek that never finds the end of the file
StreamPeekNeverEof(s) == [c |-> "char", s |-> s]

\* basic_istream::peek: [c, s], c = "EOF" or the next element
StreamPeek(s) ==
    IF ~StreamGood(s) THEN [c |-> "EOF", s |-> [s EXCEPT !.failbit = TRUE]]
    ELSE IF s.pos < Len(StreamData(s))
         THEN [c |-> "char", s |-> s]
         ELSE [c |-> "EOF", s |-> [s EXCEPT !.eofbit = TRUE]]

\* basic_istream::read of n elements: [data, s]; a short read sets eofbit
\* and failbit and leaves the elements read so far in data
StreamRead(s, n) ==
    LET d == StreamData(s)
        avail == Len(d) - s.pos
    IN  IF ~StreamGood(s) THEN [data |-> <<>>, s |-> [s EXCEPT !.failbit = TRUE]]
        ELSE IF n <= avail
             THEN [data |-> SubSeq(d, s.pos + 1, s.pos + n),
                   s |-> [s EXCEPT !.pos = s.pos + n]]
             ELSE [data |-> SubSeq(d, s.pos + 1, Len(d)),
                   s |-> [s EXCEPT !.pos = Len(d), !.eofbit = TRUE,
                                   !.failbit = TRUE]]

\* a default-constructed std::ofstream
OfstreamDefault == [is_open |-> FALSE, path |-> <<>>, failbit |-> FALSE]

\* basic_ofstream::open on a stream with no file open: state of the stream
OfstreamOpen(s, p) ==
    IF Creatable(p) THEN [is_open |-> TRUE, path |-> p, failbit |-> FALSE]
    ELSE [s EXCEPT !.failbit = TRUE]

\* basic_ofstream::close: fails, setting failbit, when no file is open
OfstreamClose(s) ==
    IF s.is_open THEN [s EXCEPT !.is_open = FALSE, !.path = <<>>]
    ELSE [s EXCEPT !.failbit = TRUE]

\* the last call: the operation (qualified by its class) and how it returned
Call(op, ret) == [op |-> op, ret |-> ret]

NoVal == [none |-> TRUE]

(***************************************************************************)
(* 32-bit frame lengths of the binary format (TraceFileConfig.h)           *)
(***************************************************************************)
kBinaryOsiMessageLengthPrefixSize == 4
kMaxExpectedMessageSize == 536870912

\* a uint32_t, as its top byte and its low 24 bits
U32FromBytes(b) == [hi |-> b[4], lo |-> b[1] + 256 * b[2] + 65536 * b[3]]

\* the four bytes of n, most significant first
U32ToBytesBigEndian(n) ==
    <<(n \div 16777216) % 256, (n \div 65536) % 256, (n \div 256) % 256, n % 256>>

\* the four bytes of the uint32_t n, in little-endian order
U32ToBytes(n) ==
    <<n % 256, (n \div 256) % 256, (n \div 65536) % 256, (n \div 16777216) % 256>>

U32IsZero(u) == u.hi = 0 /\ u.lo = 0

\* u > n, for n < 2^31
U32Greater(u, n) ==
    u.hi > n \div 16777216 \/ (u.hi = n \div 16777216 /\ u.lo > n % 16777216)

\* value of a uint32_t not above kMaxExpectedMessageSize
U32ToNat(u) == u.hi * 16777216 + u.lo

(***************************************************************************)
(* SingleChannelBinaryTraceFileReader                                      *)
(***************************************************************************)
EmptyBuffer == [size |-> 0, data |-> <<>>]

\* the reader after construction; parser_ names the kind whose parser is
\* bound (kUnknown: the empty std::function)
BinReaderInit ==
    [trace_file_ |-> IfstreamDefault, parser_ |-> kUnknown,
     message_type_ |-> kUnknown, read_buffer_ |-> EmptyBuffer]

\* Open(file_path) that lets the file name decide before the kind given
BinReaderOpenByName(r, p) ==
    IF r.trace_file_.is_open THEN { [ret |-> FALSE, r |-> r] }
    ELSE IF Extension(p) # ExtOsi THEN { [ret |-> FALSE, r |-> r] }
    ELSE IF ~exists(p) THEN { [ret |-> FALSE, r |-> r] }
    ELSE { LET mt == IF message_type_by_filename # kUnknown
                     THEN message_type_by_filename ELSE r.message_type_
               s == IfstreamOpen(p)
           IN  IF mt = kUnknown
               THEN [ret |-> FALSE, r |-> [r EXCEPT !.message_type_ = mt]]
               ELSE [ret |-> StreamOk(s),
                     r |-> [r EXCEPT !.message_type_ = mt, !.parser_ = mt,
                                     !.trace_file_ = s]]
           : message_type_by_filename \in FilenameKinds(p) }

\* Open(file_path) on reader r: the possible outcomes [ret, r]
BinReaderOpen(r, p) ==
    IF r.trace_file_.is_open THEN { [ret |-> FALSE, r |-> r] }
    ELSE IF Extension(p) # ExtOsi THEN { [ret |-> FALSE, r |-> r] }
    ELSE IF ~exists(p) THEN { [ret |-> FALSE, r |-> r] }
    ELSE { LET mt == IF r.message_type_ # kUnknown THEN r.message_type_
                     ELSE message_type_by_filename
               s == IfstreamOpen(p)
           IN  IF mt = kUnknown
               THEN [ret |-> FALSE, r |-> [r EXCEPT !.message_type_ = mt]]
               ELSE [ret |-> StreamOk(s),
                     r |-> [r EXCEPT !.message_type_ = mt, !.parser_ = mt,
                                     !.trace_file_ = s]]
           : message_type_by_filename \in FilenameKinds(p) }

\* Open(file_path, message_type)
BinReaderOpenKind(r, p, message_type) ==
    BinReaderOpen([r EXCEPT !.message_type_ = message_type], p)

\* a Close that clears the buffer and leaves the file open
BinReaderCloseBufferOnly(r) == [r EXCEPT !.read_buffer_ = EmptyBuffer]

\* Close()
BinReaderClose(r) ==
    [r EXCEPT !.trace_file_ = StreamClose(r.trace_file_),
              !.read_buffer_ = EmptyBuffer]

\* HasNext() without the look at the next byte
ReaderHasNextNoPeek(s) == [ret |-> StreamOk(s) /\ s.is_open, s |-> s]

\* HasNext(): [ret, s], s the stream afterwards (peek changes its flags)
ReaderHasNext(s) ==
    IF StreamOk(s) /\ s.is_open
    THEN LET pk == StreamPeek(s) IN [ret |-> pk.c # "EOF", s |-> pk.s]
    ELSE [ret |-> FALSE, s |-> s]

\* ReadNextMessageFromFile() that accepts the payload bytes it got when
\* fewer than message_size remain
BinReadNextMessageFromFileTruncating(r) ==
    LET rd == StreamRead(r.trace_file_, kBinaryOsiMessageLengthPrefixSize)
        message_size == U32FromBytes(rd.data)
        r1 == [r EXCEPT !.trace_file_ = rd.s]
        body == StreamRead(rd.s, U32ToNat(message_size))
        r2 == [r EXCEPT !.trace_file_ = [body.s EXCEPT !.failbit = FALSE],
                        !.read_buffer_ = [size |-> Len(body.data),
                                          data |-> body.data]]
    IN  IF ~StreamOk(rd.s) THEN [raise |-> TRUE, r |-> r1]
        ELSE IF U32IsZero(message_size)
                \/ U32Greater(message_size, kMaxExpectedMessageSize)
             THEN [raise |-> TRUE, r |-> r1]
        ELSE [raise |-> FALSE, r |-> r2]

\* ReadNextMessageFromFile(): [raise, r]; the frame is in r.read_buffer_
BinReadNextMessageFromFile(r) ==
    LET rd == StreamRead(r.trace_file_, kBinaryOsiMessageLengthPrefixSize)
        message_size == U32FromBytes(rd.data)
        r1 == [r EXCEPT !.trace_file_ = rd.s]
        body == StreamRead(rd.s, U32ToNat(message_size))
        r2 == [r EXCEPT !.trace_file_ = body.s,
                        !.read_buffer_ = [size |-> U32ToNat(message_size),
                                          data |-> body.data]]
    IN  IF ~StreamOk(rd.s) THEN [raise |-> TRUE, r |-> r1]
        ELSE IF U32IsZero(message_size)
                \/ U32Greater(message_size, kMaxExpectedMessageSize)
             THEN [raise |-> TRUE, r |-> r1]
        ELSE IF ~StreamOk(body.s) THEN [raise |-> TRUE, r |-> r2]
        ELSE [raise |-> FALSE, r |-> r2]

\* a ReadResult
ReadResult(message, message_type, channel_name) ==
    [message |-> message, message_type |-> message_type,
     channel_name |-> channel_name]

\* ReadMessage(): [ret, val, r]
BinReaderReadMessage(r) ==
    LET h == ReaderHasNext(r.trace_file_)
        f == BinReadNextMessageFromFile([r EXCEPT !.trace_file_ = h.s])
        parsed == ParseFromArray(f.r.parser_, f.r.read_buffer_.data)
    IN  IF ~h.ret
        THEN [ret |-> "nullopt", val |-> NoVal, r |-> [r EXCEPT !.trace_file_ = h.s]]
        ELSE IF f.raise THEN [ret |-> "raise", val |-> NoVal, r |-> f.r]
        ELSE IF f.r.read_buffer_.size = 0
             THEN [ret |-> "raise", val |-> NoVal, r |-> f.r]
        ELSE IF ~parsed.ok THEN [ret |-> "raise", val |-> NoVal, r |-> f.r]
        ELSE [ret |-> "value",
              val |-> ReadResult(parsed.message, f.r.message_type_, <<>>),
              r |-> f.r]

(***************************************************************************)
(* SingleChannelBinaryTraceFileWriter                                      *)
(***************************************************************************)
BinWriterInit == [trace_file_ |-> OfstreamDefault]

\* Open(file_path): [ret, w, created]; created: the file was created
BinWriterOpen(w, p) ==
    LET s == OfstreamOpen(w.trace_file_, p)
    IN  IF Extension(p) # ExtOsi THEN [ret |-> FALSE, w |-> w, created |-> FALSE]
        ELSE IF w.trace_file_.is_open
             THEN [ret |-> FALSE, w |-> w, created |-> FALSE]
        ELSE [ret |-> StreamOk(s), w |-> [w EXCEPT !.trace_file_ = s],
              created |-> s.is_open]

\* Close()
WriterClose(w) == [w EXCEPT !.trace_file_ = OfstreamClose(w.trace_file_)]

\* a frame of the binary format: length prefix and payload
BinFrame(payload) == U32ToBytes(Len(payload)) \o payload

\* WriteMessage(top_level_message): [ret, appended]
BinWriterWriteMessage(w, m) ==
    IF ~(StreamOk(w.trace_file_) /\ w.trace_file_.is_open)
    THEN [ret |-> FALSE, appended |-> <<>>]
    ELSE [ret |-> TRUE, appended |-> BinFrame(Serialize(m))]

(***************************************************************************)
(* Inputs of the binary codec                                              *)
(***************************************************************************)
Timestamp(seconds, nanos) ==
    [present |-> TRUE, seconds |-> seconds, nanos |-> nanos]

Message(kind, ts) == [kind |-> kind, ts |-> ts]

MsgGt      == Message("kGroundTruth", Timestamp(5, 7))
MsgHvd     == Message("kHostVehicleData", Timestamp(200, 999999999))
MsgDefault == Message("kGroundTruth", NoTimestamp)

\* messages passed to WriteMessage
WriteMsgs == { MsgHvd, MsgDefault }

\* contents of the file at PathGt before the first call
InitialBinContents ==
    { <<>>,
      BinFrame(Serialize(MsgGt)),
      BinFrame(Serialize(MsgGt)) \o BinFrame(Serialize(MsgHvd)),
      <<0, 0, 0, 0>> \o BinFrame(Serialize(MsgGt)),
      <<12, 0>>,
      BinFrame(Serialize(MsgGt)) \o <<12, 0, 0>>,
      <<1, 0, 0, 32, 18, 0>>,
      <<255, 255, 255, 255>>,
      <<0, 0, 0, 32, 18, 0>>,
      <<100, 0, 0, 0, 18, 0>>,
      <<1, 0, 0, 0, 15>> }

\* paths passed to the Open overloads of the binary reader and writer
BinReaderOpenPaths ==
    { PathGt, PathPlain, PathTwo, PathBin, PathMissing, PathLocked }

BinWriterOpenPaths == { PathGt, PathBin, PathNoDir }

\* kinds passed to Open(file_path, message_type)
ExplicitKinds == { "kGroundTruth", "kHostVehicleData", kUnknown }

BoolRet(b) == IF b THEN "true" ELSE "false"

NoCall == Call("none", "void")

(***************************************************************************)
(* Actions of the binary codec.  A file is not read while a writer has it  *)
(* open, and not rewritten while a reader has it open.                     *)
(***************************************************************************)
BinReaderOpenAct ==
    /\ codec = "bin"
    /\ phase = "read"
    /\ \E p \in BinReaderOpenPaths :
        /\ \E o \in BinReaderOpen(br, p) :
            /\ br' = o.r
            /\ last' = Call("BinReader::Open", BoolRet(o.ret))
    /\ UNCHANGED <<codec, phase, fs, bw, tr, tw, mr, mw, fin, fout>>

BinReaderOpenKindAct ==
    /\ codec = "bin"
    /\ phase = "read"
    /\ \E p \in BinReaderOpenPaths, k \in ExplicitKinds :
        /\ \E o \in BinReaderOpenKind(br, p, k) :
            /\ br' = o.r
            /\ last' = Call("BinReader::OpenKind", BoolRet(o.ret))
    /\ UNCHANGED <<codec, phase, fs, bw, tr, tw, mr, mw, fin, fout>>

BinReaderCloseAct ==
    /\ codec = "bin"
    /\ phase = "read"
    /\ br' = BinReaderClose(br)
    /\ last' = Call("BinReader::Close", "void")
    /\ UNCHANGED <<codec, phase, fs, bw, tr, tw, mr, mw, fin, fout>>

BinReaderHasNextAct ==
    /\ codec = "bin"
    /\ phase = "read"
    /\ LET h == ReaderHasNext(br.trace_file_)
       IN  /\ br' = [br EXCEPT !.trace_file_ = h.s]
           /\ last' = Call("BinReader::HasNext", BoolRet(h.ret))
    /\ UNCHANGED <<codec, phase, fs, bw, tr, tw, mr, mw, fin, fout>>

BinReaderReadMessageAct ==
    /\ codec = "bin"
    /\ phase = "read"
    /\ LET o == BinReaderReadMessage(br)
       IN  /\ br' = o.r
           /\ last' = Call("BinReader::ReadMessage", o.ret)
    /\ UNCHANGED <<codec, phase, fs, bw, tr, tw, mr, mw, fin, fout>>

BinWriterOpenAct ==
    /\ codec = "bin"
    /\ phase = "write"
    /\ \E p \in BinWriterOpenPaths :
        /\ LET o == BinWriterOpen(bw, p)
           IN  /\ bw' = o.w
               /\ fs' = IF o.created THEN [fs EXCEPT ![p] = File(<<>>)] ELSE fs
               /\ last' = Call("BinWriter::Open", BoolRet(o.ret))
    /\ UNCHANGED <<codec, phase, br, tr, tw, mr, mw, fin, fout>>

BinWriterCloseAct ==
    /\ codec = "bin"
    /\ phase = "write"
    /\ bw' = WriterClose(bw)
    /\ last' = Call("BinWriter::Close", "void")
    /\ UNCHANGED <<codec, phase, fs, br, tr, tw, mr, mw, fin, fout>>

BinWriterWriteMessageAct ==
    /\ codec = "bin"
    /\ phase = "write"
    /\ \E m \in WriteMsgs :
        LET o == BinWriterWriteMessage(bw, m)
            p == bw.trace_file_.path
        IN  /\ o.ret => Len(fs[p].written) < MaxWrites
            /\ fs' = IF o.ret
                     THEN [fs EXCEPT ![p].data = @ \o o.appended,
                                     ![p].written = Append(@, m)]
                     ELSE fs
            /\ last' = Call("BinWriter::WriteMessage", BoolRet(o.ret))
    /\ UNCHANGED <<codec, phase, br, bw, tr, tw, mr, mw, fin, fout>>

(***************************************************************************)
(* Text format.  A text file is a sequence of atoms: the newline and the   *)
(* texts of lines, which the reader only compares as a whole and hands to  *)
(* the text parser.                                                        *)
(***************************************************************************)
Atom(k, name, value) == [k |-> k, name |-> name, value |-> value]

NL == Atom("nl", "", 0)
BlockOpen(name) == Atom("open", name, 0)     \* "name {"
BlockClose == Atom("close", "", 0)           \* "}"
Field(name, value) == Atom("field", name, value)   \* "  name: value"
Junk == Atom("junk", "", 0)                  \* a line that is no text format

\* google::protobuf::TextFormat::Print of a top-level message
TextFormatPrint(m) ==
    IF ~m.ts.present THEN <<>>
    ELSE <<BlockOpen("timestamp"), NL, Field("seconds", m.ts.seconds), NL,
           Field("nanos", m.ts.nanos), NL, BlockClose, NL>>

\* The text parser on the atoms t from index i; inside: within the
\* timestamp block.  A field given twice, an unknown line or an unclosed
\* block fails the parse.
RECURSIVE TextParseRec(_, _, _, _)
TextParseRec(t, i, inside, acc) ==
    LET bad == [ok |-> FALSE, acc |-> acc]
    IN  IF i > Len(t) THEN [ok |-> ~inside, acc |-> acc]
        ELSE IF t[i].k = "nl" THEN TextParseRec(t, i + 1, inside, acc)
        ELSE IF ~inside THEN
            IF t[i] = BlockOpen("timestamp") /\ ~acc.has_timestamp
            THEN TextParseRec(t, i + 1, TRUE, [acc EXCEPT !.has_timestamp = TRUE])
            ELSE bad
        ELSE IF t[i] = BlockClose THEN TextParseRec(t, i + 1, FALSE, acc)
        ELSE IF t[i].k = "field" /\ t[i].name = "seconds" /\ acc.seconds = <<>>
             THEN TextParseRec(t, i + 1, TRUE,
                               [acc EXCEPT !.seconds = <<t[i].value>>])
        ELSE IF t[i].k = "field" /\ t[i].name = "nanos" /\ acc.nanos = <<>>
             THEN TextParseRec(t, i + 1, TRUE,
                               [acc EXCEPT !.nanos = <<t[i].value>>])
        ELSE bad

\* TextFormat::ParseFromString for the top-level message type of kind
TextFormatParseFromString(kind, t) ==
    LET r == TextParseRec(t, 1, FALSE,
                 [has_timestamp |-> FALSE, seconds |-> <<>>, nanos |-> <<>>])
        num(v) == IF v = <<>> THEN <<>> ELSE NatToVal(v[1])
    IN  [ok |-> r.ok,
         message |-> [kind |-> kind,
                      has_timestamp |-> r.acc.has_timestamp,
                      seconds |-> Val64(num(r.acc.seconds)),
                      nanos |-> Val32(num(r.acc.nanos))]]

\* index of the first newline of d after position pos, 0 when there is none
RECURSIVE FindNL(_, _)
FindNL(d, pos) ==
    IF pos >= Len(d) THEN 0
    ELSE IF d[pos + 1] = NL THEN pos + 1 ELSE FindNL(d, pos + 1)

\* std::getline(s, line): [sentry, line, s].  A stream that is not good
\* fails the sentry and leaves line alone; otherwise the line is read up to
\* the newline, which is consumed, or up to the end of the file (eofbit,
\* and failbit when nothing was read).
StreamGetline(s) ==
    LET d == StreamData(s)
        j == FindNL(d, s.pos)
    IN  IF ~StreamGood(s)
        THEN [sentry |-> FALSE, line |-> <<>>, s |-> [s EXCEPT !.failbit = TRUE]]
        ELSE IF j # 0
        THEN [sentry |-> TRUE, line |-> SubSeq(d, s.pos + 1, j - 1),
              s |-> [s EXCEPT !.pos = j]]
        ELSE [sentry |-> TRUE, line |-> SubSeq(d, s.pos + 1, Len(d)),
              s |-> [s EXCEPT !.pos = Len(d), !.eofbit = TRUE,
                              !.failbit = (s.pos = Len(d))]]

\* basic_istream::seekg(pos): clears eofbit; no effect on a failed stream
StreamSeekg(s, pos) ==
    IF s.failbit THEN [s EXCEPT !.eofbit = FALSE]
    ELSE IF ~s.is_open THEN [s EXCEPT !.eofbit = FALSE, !.failbit = TRUE]
    ELSE [s EXCEPT !.eofbit = FALSE, !.pos = pos]

\* a tellg that always reports the start of the file
StreamTellgStart(s) == 0

\* basic_istream::tellg
StreamTellg(s) == IF s.failbit THEN -1 ELSE s.pos

(***************************************************************************)
(* TXTHTraceFileReader                                                     *)
(***************************************************************************)
TxthReaderInit ==
    [trace_file_ |-> IfstreamDefault, parser_ |-> kUnknown,
     message_type_ |-> kUnknown, line_indicating_msg_start_ |-> <<>>]

\* Open(file_path) on reader r: the possible outcomes [ret, r]
TxthReaderOpen(r, p) ==
    IF r.trace_file_.is_open THEN { [ret |-> FALSE, r |-> r] }
    ELSE IF Extension(p) # ExtTxth THEN { [ret |-> FALSE, r |-> r] }
    ELSE IF ~exists(p) THEN { [ret |-> FALSE, r |-> r] }
    ELSE { LET mt == IF r.message_type_ # kUnknown THEN r.message_type_
                     ELSE by_filename
               g == StreamGetline(IfstreamOpen(p))
               s == StreamSeekg(g.s, 0)
           IN  IF mt = kUnknown
               THEN [ret |-> FALSE, r |-> [r EXCEPT !.message_type_ = mt]]
               ELSE [ret |-> s.is_open,
                     r |-> [r EXCEPT !.message_type_ = mt, !.parser_ = mt,
                                     !.trace_file_ = s,
                                     !.line_indicating_msg_start_ =
                                         IF g.sentry THEN g.line ELSE @]]
           : by_filename \in FilenameKinds(p) }

\* an Open(file_path, message_type) that drops the kind it is given
TxthReaderOpenKindDropped(r, p, message_type) == TxthReaderOpen(r, p)

\* Open(file_path, message_type)
TxthReaderOpenKind(r, p, message_type) ==
    TxthReaderOpen([r EXCEPT !.message_type_ = message_type], p)

\* Close()
TxthReaderClose(r) == [r EXCEPT !.trace_file_ = StreamClose(r.trace_file_)]

\* a loop that stops after the first line
TxthReadLinesFirstOnly(s, line, message, last_position, start) ==
    [s |-> s, message |-> message, last_position |-> last_position]

\* the loop of ReadNextMessageFromFile: [s, message, last_position]
RECURSIVE TxthReadLines(_, _, _, _, _)
TxthReadLines(s, line, message, last_position, start) ==
    IF ~s.eofbit /\ line # start
    THEN LET g == StreamGetline(s)
         IN  TxthReadLines(g.s, IF g.sentry THEN g.line ELSE line,
                           message \o line \o <<NL>>, StreamTellg(s), start)
    ELSE [s |-> s, message |-> message, last_position |-> last_position]

\* ReadNextMessageFromFile(): [message, s]
TxthReadNextMessageFromFile(r) ==
    LET g == StreamGetline(r.trace_file_)
        l == TxthReadLines(g.s, <<>>, g.line, 0, r.line_indicating_msg_start_)
    IN  [message |-> l.message,
         s |-> IF ~l.s.eofbit THEN StreamSeekg(l.s, l.last_position) ELSE l.s]

\* ReadMessage(): [ret, val, r]
TxthReaderReadMessage(r) ==
    LET h == ReaderHasNext(r.trace_file_)
        f == TxthReadNextMessageFromFile([r EXCEPT !.trace_file_ = h.s])
        r1 == [r EXCEPT !.trace_file_ = f.s]
        parsed == TextFormatParseFromString(r.parser_, f.message)
    IN  IF ~h.ret
        THEN [ret |-> "nullopt", val |-> NoVal, r |-> [r EXCEPT !.trace_file_ = h.s]]
        ELSE IF f.message = <<>> THEN [ret |-> "nullopt", val |-> NoVal, r |-> r1]
        ELSE IF ~parsed.ok THEN [ret |-> "raise", val |-> NoVal, r |-> r1]
        ELSE [ret |-> "value",
              val |-> ReadResult(parsed.message, r.message_type_, <<>>),
              r |-> r1]

(***************************************************************************)
(* TXTHTraceFileWriter                                                     *)
(***************************************************************************)
TxthWriterInit == [trace_file_ |-> OfstreamDefault]

\* Open(file_path): [ret, w, created]
TxthWriterOpen(w, p) ==
    LET s == OfstreamOpen(w.trace_file_, p)
    IN  IF Extension(p) # ExtTxth THEN [ret |-> FALSE, w |-> w, created |-> FALSE]
        ELSE IF w.trace_file_.is_open
             THEN [ret |-> FALSE, w |-> w, created |-> FALSE]
        ELSE [ret |-> StreamOk(s), w |-> [w EXCEPT !.trace_file_ = s],
              created |-> s.is_open]

\* WriteMessage(top_level_message): [ret, appended]
TxthWriterWriteMessage(w, m) ==
    IF ~(StreamOk(w.trace_file_) /\ w.trace_file_.is_open)
    THEN [ret |-> FALSE, appended |-> <<>>]
    ELSE [ret |-> TRUE, appended |-> TextFormatPrint(m)]

(***************************************************************************)
(* Inputs and actions of the text codec                                    *)
(***************************************************************************)
\* contents of the file at PathTxthGt before the first call
InitialTxthContents ==
    { <<>>,
      TextFormatPrint(MsgGt),
      TextFormatPrint(MsgGt) \o TextFormatPrint(MsgHvd),
      SubSeq(TextFormatPrint(MsgGt), 1, Len(TextFormatPrint(MsgGt)) - 1),
      <<NL>> \o TextFormatPrint(MsgGt),
      TextFormatPrint(MsgGt) \o <<NL>>,
      <<BlockOpen("timestamp"), NL, BlockOpen("timestamp"), NL, BlockClose, NL>>,
      TextFormatPrint(MsgGt) \o <<BlockOpen("timestamp")>>,
      <<Junk, NL>> }

TxthReaderOpenPaths == { PathTxthGt, PathTxthPlain, PathGt, PathTxthMissing }

TxthWriterOpenPaths == { PathTxthGt, PathGt }

TxthReaderOpenAct ==
    /\ codec = "txth"
    /\ phase = "read"
    /\ \E p \in TxthReaderOpenPaths :
        /\ \E o \in TxthReaderOpen(tr, p) :
            /\ tr' = o.r
            /\ last' = Call("TxthReader::Open", BoolRet(o.ret))
    /\ UNCHANGED <<codec, phase, fs, br, bw, tw, mr, mw, fin, fout>>

TxthReaderOpenKindAct ==
    /\ codec = "txth"
    /\ phase = "read"
    /\ \E p \in TxthReaderOpenPaths, k \in ExplicitKinds :
        /\ \E o \in TxthReaderOpenKind(tr, p, k) :
            /\ tr' = o.r
            /\ last' = Call("TxthReader::OpenKind", BoolRet(o.ret))
    /\ UNCHANGED <<codec, phase, fs, br, bw, tw, mr, mw, fin, fout>>

TxthReaderCloseAct ==
    /\ codec = "txth"
    /\ phase = "read"
    /\ tr' = TxthReaderClose(tr)
    /\ last' = Call("TxthReader::Close", "void")
    /\ UNCHANGED <<codec, phase, fs, br, bw, tw, mr, mw, fin, fout>>

TxthReaderHasNextAct ==
    /\ codec = "txth"
    /\ phase = "read"
    /\ LET h == ReaderHasNext(tr.trace_file_)
       IN  /\ tr' = [tr EXCEPT !.trace_file_ = h.s]
           /\ last' = Call("TxthReader::HasNext", BoolRet(h.ret))
    /\ UNCHANGED <<codec, phase, fs, br, bw, tw, mr, mw, fin, fout>>

TxthReaderReadMessageAct ==
    /\ codec = "txth"
    /\ phase = "read"
    /\ LET o == TxthReaderReadMessage(tr)
       IN  /\ tr' = o.r
           /\ last' = Call("TxthReader::ReadMessage", o.ret)
    /\ UNCHANGED <<codec, phase, fs, br, bw, tw, mr, mw, fin, fout>>

TxthWriterOpenAct ==
    /\ codec = "txth"
    /\ phase = "write"
    /\ \E p \in TxthWriterOpenPaths :
        /\ LET o == TxthWriterOpen(tw, p)
           IN  /\ tw' = o.w
               /\ fs' = IF o.created THEN [fs EXCEPT ![p] = File(<<>>)] ELSE fs
               /\ last' = Call("TxthWriter::Open", BoolRet(o.ret))
    /\ UNCHANGED <<codec, phase, br, bw, tr, mr, mw, fin, fout>>

TxthWriterCloseAct ==
    /\ codec = "txth"
    /\ phase = "write"
    /\ tw' = WriterClose(tw)
    /\ last' = Call("TxthWriter::Close", "void")
    /\ UNCHANGED <<codec, phase, fs, br, bw, tr, mr, mw, fin, fout>>

TxthWriterWriteMessageAct ==
    /\ codec = "txth"
    /\ phase = "write"
    /\ \E m \in WriteMsgs :
        LET o == TxthWriterWriteMessage(tw, m)
            p == tw.trace_file_.path
        IN  /\ o.ret => Len(fs[p].written) < MaxWrites
            /\ fs' = IF o.ret
                     THEN [fs EXCEPT ![p].data = @ \o o.appended,
                                     ![p].written = Append(@, m)]
                     ELSE fs
            /\ last' = Call("TxthWriter::WriteMessage", BoolRet(o.ret))
    /\ UNCHANGED <<codec, phase, br, bw, tr, tw, mr, mw, fin, fout>>

(***************************************************************************)
(* MCAP container.  A file is a sequence of records; the library classes   *)
(* mcap::McapWriter and mcap::McapReader are modelled by their interface.  *)
(***************************************************************************)
kNanosecondsPerSecond == 1000000000

\* v * k + carry on base-128 digit sequences, k and carry small
RECURSIVE MulSmall(_, _, _)
MulSmall(v, k, carry) ==
    IF v = <<>> THEN NatToVal(carry)
    ELSE <<(v[1] * k + carry) % 128>>
             \o MulSmall(Tail(v), k, (v[1] * k + carry) \div 128)

\* a + b + carry on base-128 digit sequences
RECURSIVE AddDigits(_, _, _)
AddDigits(a, b, carry) ==
    IF a = <<>> /\ b = <<>> THEN NatToVal(carry)
    ELSE LET x == (IF a = <<>> THEN 0 ELSE a[1])
                  + (IF b = <<>> THEN 0 ELSE b[1]) + carry
         IN  <<x % 128>> \o AddDigits(IF a = <<>> THEN a ELSE Tail(a),
                                      IF b = <<>> THEN b ELSE Tail(b),
                                      x \div 128)

\* the seconds in nanoseconds, the nanos left out
LogTimeWithoutNanos(seconds, nanos) ==
    LET k == kNanosecondsPerSecond \div 1000000
    IN  Val64(MulSmall(MulSmall(MulSmall(NatToVal(seconds), k, 0), k, 0), k, 0))

\* seconds * kNanosecondsPerSecond + nanos, as a 64-bit value
LogTime(seconds, nanos) ==
    LET k == kNanosecondsPerSecond \div 1000000
        m == MulSmall(MulSmall(MulSmall(NatToVal(seconds), k, 0), k, 0), k, 0)
    IN  Val64(AddDigits(m, NatToVal(nanos), 0))

Osi3 == <<"o", "s", "i", "3", ".">>

\* T::descriptor()->full_name() of the message type of a kind
DescriptorFullName(kind) ==
    IF kind = "kGroundTruth" THEN Osi3 \o <<"GroundTruth">>
    ELSE IF kind = "kHostVehicleData" THEN Osi3 \o <<"HostVehicleData">>
    ELSE Osi3 \o <<"SensorView">>

McapHeader == [rec |-> "header"]
McapFooter == [rec |-> "footer"]
McapMetadata(name) == [rec |-> "metadata", name |-> name]
McapMessage(topic, schema, encoding, logTime, publishTime, data) ==
    [rec |-> "message", topic |-> topic, schema |-> schema,
     encoding |-> encoding, logTime |-> logTime, publishTime |-> publishTime,
     data |-> data]

\* mcap::McapWriter after construction
McapWriterLibInit ==
    [opened |-> FALSE, options |-> <<>>, schemas |-> <<>>, channels |-> <<>>]

\* McapWriter::close: nothing on a writer that is not open; otherwise the
\* file is finalized and the writer reset.  Whether the reset drops the
\* schemas added depends on the library version.
McapWriterLibClose(lib) ==
    IF ~lib.opened THEN { lib }
    ELSE { [lib EXCEPT !.opened = FALSE, !.schemas = sc, !.channels = <<>>]
           : sc \in { lib.schemas, <<>> } }

\* McapWriter::write(message): [ok, record]
McapWriterLibWrite(lib, channelId, logTime, publishTime, data) ==
    LET bad == [ok |-> FALSE, record |-> McapFooter]
    IN  IF ~lib.opened THEN bad
        ELSE IF channelId < 1 \/ channelId > Len(lib.channels) THEN bad
        ELSE LET channel == lib.channels[channelId]
             IN  IF channel.schemaId < 1 \/ channel.schemaId > Len(lib.schemas)
                 THEN bad
                 ELSE [ok |-> TRUE,
                       record |-> McapMessage(channel.topic,
                                      lib.schemas[channel.schemaId].name,
                                      lib.schemas[channel.schemaId].encoding,
                                      logTime, publishTime, data)]

(***************************************************************************)
(* MCAPTraceFileWriter                                                     *)
(***************************************************************************)
Topics == { "a", "b" }

DefaultWriterOptions == [profile |-> "protobuf", compression |-> "default"]
CustomWriterOptions  == [profile |-> "protobuf", compression |-> "none"]

McapWriterInit ==
    [trace_file_ |-> OfstreamDefault, mcap_writer_ |-> McapWriterLibInit,
     mcap_options_ |-> DefaultWriterOptions, schemas_ |-> <<>>,
     topic_to_channel_id_ |-> [t \in Topics |-> 0],
     required_metadata_added_ |-> FALSE]

\* Open(file_path): [ret, w, created, header]
McapWriterOpen(w, p) ==
    LET s == OfstreamOpen(w.trace_file_, p)
    IN  IF w.trace_file_.is_open
        THEN [ret |-> FALSE, w |-> w, created |-> FALSE, header |-> <<>>]
        ELSE IF ~StreamOk(s)
        THEN [ret |-> FALSE, w |-> [w EXCEPT !.trace_file_ = s],
              created |-> FALSE, header |-> <<>>]
        ELSE [ret |-> TRUE,
              w |-> [w EXCEPT !.trace_file_ = s, !.mcap_writer_.opened = TRUE,
                              !.mcap_writer_.options = <<w.mcap_options_>>],
              created |-> TRUE, header |-> <<McapHeader>>]

\* Open(file_path, options)
McapWriterOpenOptions(w, p, options) ==
    McapWriterOpen([w EXCEPT !.mcap_options_ = options], p)

\* Close(): the possible outcomes [w, footer]
McapWriterClose(w) ==
    { [w |-> [w EXCEPT !.mcap_writer_ = lib,
                       !.trace_file_ = OfstreamClose(w.trace_file_)],
       footer |-> IF w.mcap_writer_.opened THEN <<McapFooter>> ELSE <<>>]
      : lib \in McapWriterLibClose(w.mcap_writer_) }

RequiredMetadataName == "net.asam.osi.trace"
kRequiredFields ==
    { "version", "min_osi_version", "max_osi_version",
      "min_protobuf_version", "max_protobuf_version" }

\* PrepareRequiredFileMetadata()
PrepareRequiredFileMetadata ==
    [name |-> RequiredMetadataName, fields |-> kRequiredFields]

\* an AddFileMetadata that accepts the required record again
McapWriterAddFileMetadataRepeated(w, metadata) ==
    IF metadata.name = RequiredMetadataName
           /\ ~(kRequiredFields \subseteq metadata.fields)
    THEN [ret |-> FALSE, w |-> w, appended |-> <<>>]
    ELSE IF ~w.mcap_writer_.opened
    THEN [ret |-> FALSE, w |-> w, appended |-> <<>>]
    ELSE [ret |-> TRUE, w |-> [w EXCEPT !.required_metadata_added_ = TRUE],
          appended |-> <<McapMetadata(metadata.name)>>]

\* AddFileMetadata(metadata): [ret, w, appended]
McapWriterAddFileMetadata(w, metadata) ==
    LET required == metadata.name = RequiredMetadataName
        w1 == IF required THEN [w EXCEPT !.required_metadata_added_ = TRUE]
              ELSE w
    IN  IF required /\ w.required_metadata_added_
        THEN [ret |-> FALSE, w |-> w, appended |-> <<>>]
        ELSE IF required /\ ~(kRequiredFields \subseteq metadata.fields)
        THEN [ret |-> FALSE, w |-> w, appended |-> <<>>]
        ELSE IF ~w.mcap_writer_.opened
        THEN [ret |-> FALSE, w |-> w1, appended |-> <<>>]
        ELSE [ret |-> TRUE, w |-> w1,
              appended |-> <<McapMetadata(metadata.name)>>]

\* index of the first schema of schemas_ with the given name, 0 when none
RECURSIVE FindSchema(_, _, _)
FindSchema(schemas, name, i) ==
    IF i > Len(schemas) THEN 0
    ELSE IF schemas[i].name = name THEN i
    ELSE FindSchema(schemas, name, i + 1)

\* AddChannel(topic, descriptor, channel_metadata): [raise, id, w]
McapWriterAddChannel(w, topic, kind) ==
    LET name == DescriptorFullName(kind)
        it_schema == FindSchema(w.schemas_, name, 1)
        lib == w.mcap_writer_
        new_schema == [name |-> name, encoding |-> "protobuf",
                       id |-> Len(lib.schemas) + 1]
        path_schema == IF it_schema = 0 THEN new_schema
                       ELSE w.schemas_[it_schema]
        lib1 == IF it_schema = 0
                THEN [lib EXCEPT !.schemas = Append(@, new_schema)]
                ELSE lib
        channel == [topic |-> topic, schemaId |-> path_schema.id,
                    id |-> Len(lib.channels) + 1]
    IN  IF w.topic_to_channel_id_[topic] # 0
        THEN IF it_schema # 0
             THEN [raise |-> FALSE, id |-> w.topic_to_channel_id_[topic], w |-> w]
             ELSE [raise |-> TRUE, id |-> 0, w |-> w]
        ELSE [raise |-> FALSE, id |-> channel.id,
              w |-> [w EXCEPT
                       !.schemas_ = IF it_schema = 0 THEN Append(@, new_schema)
                                    ELSE @,
                       !.mcap_writer_ =
                           [lib1 EXCEPT !.channels = Append(@, channel)],
                       !.topic_to_channel_id_[topic] = channel.id]]

\* a WriteMessage that tests neither the file nor the topic
McapWriterWriteMessageUnchecked(w, m, topic) ==
    [ret |-> TRUE,
     appended |-> <<McapMessage(topic, DescriptorFullName(m.kind), "protobuf",
                                LogTime(m.ts.seconds, m.ts.nanos),
                                LogTime(m.ts.seconds, m.ts.nanos),
                                Serialize(m))>>]

\* WriteMessage(top_level_message, topic): [ret, appended]
McapWriterWriteMessage(w, m, topic) ==
    LET no == [ret |-> FALSE, appended |-> <<>>]
        logTime == LogTime(m.ts.seconds, m.ts.nanos)
        publishTime == logTime
        st == McapWriterLibWrite(w.mcap_writer_, w.topic_to_channel_id_[topic],
                                 logTime, publishTime, Serialize(m))
    IN  IF topic = "" THEN no
        ELSE IF ~(StreamOk(w.trace_file_) /\ w.trace_file_.is_open) THEN no
        ELSE IF ~w.required_metadata_added_ THEN no
        ELSE IF w.topic_to_channel_id_[topic] = 0 THEN no
        ELSE IF ~st.ok THEN no
        ELSE [ret |-> TRUE, appended |-> <<st.record>>]

(***************************************************************************)
(* MCAPTraceFileReader                                                     *)
(***************************************************************************)
\* ReadMessageOptions: the messages of every topic, or of one topic
DefaultReadOptions == [topicFilter |-> ""]
CustomReadOptions  == [topicFilter |-> "b"]

deserializer_map_ ==
    { [key |-> Osi3 \o <<"GroundTruth">>, value |-> "kGroundTruth"],
      [key |-> Osi3 \o <<"SensorData">>, value |-> "kSensorData"],
      [key |-> Osi3 \o <<"SensorView">>, value |-> "kSensorView"],
      [key |-> Osi3 \o <<"SensorViewConfiguration">>,
       value |-> "kSensorViewConfiguration"],
      [key |-> Osi3 \o <<"HostVehicleData">>, value |-> "kHostVehicleData"],
      [key |-> Osi3 \o <<"TrafficCommand">>, value |-> "kTrafficCommand"],
      [key |-> Osi3 \o <<"TrafficCommandUpdate">>,
       value |-> "kTrafficCommandUpdate"],
      [key |-> Osi3 \o <<"TrafficUpdate">>, value |-> "kTrafficUpdate"],
      [key |-> Osi3 \o <<"MotionRequest">>, value |-> "kMotionRequest"],
      [key |-> Osi3 \o <<"StreamingUpdate">>, value |-> "kStreamingUpdate"] }

\* an open that takes every content for a container
McapReaderLibOpenAny(data) == TRUE

\* McapReader::open: the file starts with a header and ends with a footer
McapReaderLibOpen(data) ==
    /\ Len(data) >= 2
    /\ data[1].rec = "header"
    /\ data[Len(data)].rec = "footer"

\* readMessages(OnProblem, options): the message records the view iterates
McapMessageView(data, options) ==
    SelectSeq(data, LAMBDA x :
        /\ x.rec = "message"
        /\ (options.topicFilter = "" \/ x.topic = options.topicFilter))

McapReaderInit ==
    [trace_file_ |-> IfstreamDefault, message_view_ |-> <<>>,
     has_view_ |-> FALSE, message_iterator_ |-> 0,
     skip_non_osi_msgs_ |-> FALSE, mcap_options_ |-> DefaultReadOptions]

\* Open(file_path): [ret, r]
McapReaderOpen(r, p) ==
    LET s == IfstreamOpen(p)
    IN  IF r.has_view_ THEN [ret |-> FALSE, r |-> r]
        ELSE IF ~exists(p) THEN [ret |-> FALSE, r |-> r]
        ELSE IF ~StreamOk(s)
        THEN [ret |-> FALSE, r |-> [r EXCEPT !.trace_file_ = s]]
        ELSE IF ~McapReaderLibOpen(fs[p].data)
        THEN [ret |-> FALSE, r |-> [r EXCEPT !.trace_file_ = StreamClose(s)]]
        ELSE [ret |-> TRUE,
              r |-> [r EXCEPT !.trace_file_ = s, !.has_view_ = TRUE,
                       !.message_view_ =
                           McapMessageView(fs[p].data, r.mcap_options_),
                       !.message_iterator_ = 1]]

\* Open(file_path, options)
McapReaderOpenOptions(r, p, options) ==
    McapReaderOpen([r EXCEPT !.mcap_options_ = options], p)

\* Close()
McapReaderClose(r) ==
    [r EXCEPT !.message_iterator_ = 0, !.has_view_ = FALSE,
              !.message_view_ = <<>>,
              !.trace_file_ = StreamClose(r.trace_file_)]

\* HasNext()
McapReaderHasNext(r) ==
    /\ StreamOk(r.trace_file_) /\ r.trace_file_.is_open
    /\ r.message_iterator_ # 0
    /\ r.message_iterator_ <= Len(r.message_view_)

\* a setter that ignores its argument
McapReaderSetSkipIgnoring(r, skip) == r

\* SetSkipNonOSIMsgs(skip)
McapReaderSetSkipNonOSIMsgs(r, skip) == [r EXCEPT !.skip_non_osi_msgs_ = skip]

\* a ReadMessage that passes one message and returns nothing
McapReaderReadMessagePassingOne(r) ==
    [ret |-> "nullopt", val |-> NoVal,
     r |-> IF McapReaderHasNext(r)
           THEN [r EXCEPT !.message_iterator_ = @ + 1] ELSE r]

\* ReadMessage(): [ret, val, r]
RECURSIVE McapReaderReadMessage(_)
McapReaderReadMessage(r) ==
    IF ~McapReaderHasNext(r) THEN [ret |-> "nullopt", val |-> NoVal, r |-> r]
    ELSE
    LET msg == r.message_view_[r.message_iterator_]
        next == [r EXCEPT !.message_iterator_ = @ + 1]
        hits == { e \in deserializer_map_ : e.key = msg.schema }
        kind == (CHOOSE e \in hits : TRUE).value
        parsed == ParseFromArray(kind, msg.data)
    IN  IF msg.encoding # "protobuf" \/ Len(msg.schema) < 5
           \/ SubSeq(msg.schema, 1, 5) # Osi3
        THEN IF r.skip_non_osi_msgs_ THEN McapReaderReadMessage(next)
             ELSE [ret |-> "raise", val |-> NoVal, r |-> r]
        ELSE IF hits = {} THEN [ret |-> "raise", val |-> NoVal, r |-> r]
        ELSE IF ~parsed.ok THEN [ret |-> "raise", val |-> NoVal, r |-> r]
        ELSE [ret |-> "value",
              val |-> ReadResult(parsed.message, kind, msg.topic),
              r |-> next]

(***************************************************************************)
(* Inputs and actions of the MCAP codec                                    *)
(***************************************************************************)
\* metadata records passed to AddFileMetadata
OtherMetadataName == "vendor"

\* a record that is not the required one
OtherMetadata == [name |-> OtherMetadataName, fields |-> {}]

MetadataInputs ==
    { PrepareRequiredFileMetadata,
      [name |-> RequiredMetadataName, fields |-> { "version" }] }

\* topics and kinds passed to AddChannel
ChannelInputs ==
    { <<"a", "kGroundTruth">>, <<"a", "kHostVehicleData">>,
      <<"b", "kHostVehicleData">> }

\* a stored message of a channel with the given schema
StoredMessage(topic, schema, encoding, m) ==
    McapMessage(topic, schema, encoding, LogTime(m.ts.seconds, m.ts.nanos),
                LogTime(m.ts.seconds, m.ts.nanos), Serialize(m))

\* contents of the file at PathMcap before the first call
InitialMcapContents ==
    LET H == McapHeader
        gt == StoredMessage("a", DescriptorFullName("kGroundTruth"), "protobuf", MsgGt)
        hvd == StoredMessage("b", DescriptorFullName("kHostVehicleData"), "protobuf", MsgHvd)
    IN  { <<>>,
          <<H, McapFooter>>,
          <<H, McapMetadata(RequiredMetadataName), gt, McapFooter>>,
          <<H, gt, hvd, McapFooter>>,
          <<H, gt>>,
          <<H, StoredMessage("a", <<"m", "y", "_", "j", "s", "o", "n">>,
                             "jsonschema", MsgDefault), gt, McapFooter>>,
          <<H, StoredMessage("a", Osi3 \o <<"Foo">>, "protobuf", MsgGt), gt,
            McapFooter>>,
          <<H, StoredMessage("a", <<"f", "o", "o", ".", "B", "a", "r">>,
                             "protobuf", MsgGt), McapFooter>>,
          <<H, gt,
            StoredMessage("a", <<"m", "y", "_", "j", "s", "o", "n">>,
                          "jsonschema", MsgDefault),
            StoredMessage("b", <<"f", "o", "o", ".", "B", "a", "r">>,
                          "protobuf", MsgGt), McapFooter>>,
          <<H, [gt EXCEPT !.data = <<15>>], McapFooter>> }

McapReaderOpenPaths == { PathMcap, PathMcapMissing, PathLocked }

McapWriterOpenPaths == { PathMcap, PathNoDir }

McapReaderOpenAct ==
    /\ codec = "mcap"
    /\ phase = "read"
    /\ \E p \in McapReaderOpenPaths :
        /\ LET o == McapReaderOpen(mr, p)
           IN  /\ mr' = o.r
               /\ last' = Call("McapReader::Open", BoolRet(o.ret))
    /\ UNCHANGED <<codec, phase, fs, br, bw, tr, tw, mw, fin, fout>>

McapReaderOpenOptionsAct ==
    /\ codec = "mcap"
    /\ phase = "read"
    /\ \E p \in McapReaderOpenPaths,
          options \in { DefaultReadOptions, CustomReadOptions } :
        /\ LET o == McapReaderOpenOptions(mr, p, options)
           IN  /\ mr' = o.r
               /\ last' = Call("McapReader::OpenOptions", BoolRet(o.ret))
    /\ UNCHANGED <<codec, phase, fs, br, bw, tr, tw, mw, fin, fout>>

McapReaderCloseAct ==
    /\ codec = "mcap"
    /\ phase = "read"
    /\ mr' = McapReaderClose(mr)
    /\ last' = Call("McapReader::Close", "void")
    /\ UNCHANGED <<codec, phase, fs, br, bw, tr, tw, mw, fin, fout>>

McapReaderHasNextAct ==
    /\ codec = "mcap"
    /\ phase = "read"
    /\ last' = Call("McapReader::HasNext", BoolRet(McapReaderHasNext(mr)))
    /\ UNCHANGED <<codec, phase, fs, br, bw, tr, tw, mr, mw, fin, fout>>

McapReaderSetSkipNonOSIMsgsAct ==
    /\ codec = "mcap"
    /\ phase = "read"
    /\ \E skip \in BOOLEAN :
        mr' = McapReaderSetSkipNonOSIMsgs(mr, skip)
    /\ last' = Call("McapReader::SetSkipNonOSIMsgs", "void")
    /\ UNCHANGED <<codec, phase, fs, br, bw, tr, tw, mw, fin, fout>>

McapReaderReadMessageAct ==
    /\ codec = "mcap"
    /\ phase = "read"
    /\ LET o == McapReaderReadMessage(mr)
       IN  /\ mr' = o.r
           /\ last' = Call("McapReader::ReadMessage", o.ret)
    /\ UNCHANGED <<codec, phase, fs, br, bw, tr, tw, mw, fin, fout>>

McapWriterOpenAct ==
    /\ codec = "mcap"
    /\ phase = "write"
    /\ \E p \in McapWriterOpenPaths :
        /\ LET o == McapWriterOpen(mw, p)
           IN  /\ mw' = o.w
               /\ fs' = IF o.created THEN [fs EXCEPT ![p] = File(o.header)]
                        ELSE fs
               /\ last' = Call("McapWriter::Open", BoolRet(o.ret))
    /\ UNCHANGED <<codec, phase, br, bw, tr, tw, mr, fin, fout>>

McapWriterOpenOptionsAct ==
    /\ codec = "mcap"
    /\ phase = "write"
    /\ \E p \in McapWriterOpenPaths,
          options \in { DefaultWriterOptions, CustomWriterOptions } :
        /\ LET o == McapWriterOpenOptions(mw, p, options)
           IN  /\ mw' = o.w
               /\ fs' = IF o.created THEN [fs EXCEPT ![p] = File(o.header)]
                        ELSE fs
               /\ last' = Call("McapWriter::OpenOptions", BoolRet(o.ret))
    /\ UNCHANGED <<codec, phase, br, bw, tr, tw, mr, fin, fout>>

McapWriterCloseAct ==
    /\ codec = "mcap"
    /\ phase = "write"
    /\ \E o \in McapWriterClose(mw) :
        /\ mw' = o.w
        /\ fs' = IF o.footer # <<>>
                 THEN [fs EXCEPT ![mw.trace_file_.path].data = @ \o o.footer]
                 ELSE fs
    /\ last' = Call("McapWriter::Close", "void")
    /\ UNCHANGED <<codec, phase, br, bw, tr, tw, mr, fin, fout>>

McapWriterAddFileMetadataAct ==
    /\ codec = "mcap"
    /\ phase = "write"
    /\ \E metadata \in MetadataInputs :
        LET o == McapWriterAddFileMetadata(mw, metadata)
            p == mw.trace_file_.path
        IN  /\ mw' = o.w
            /\ fs' = IF o.ret THEN [fs EXCEPT ![p].data = @ \o o.appended]
                     ELSE fs
            /\ fout' = IF o.ret THEN "accepted" ELSE fout
            /\ last' = Call("McapWriter::AddFileMetadata", BoolRet(o.ret))
    /\ UNCHANGED <<codec, phase, br, bw, tr, tw, mr, fin>>

\* AddFileMetadata with a record of another name
McapWriterAddOtherMetadataAct ==
    /\ codec = "mcap"
    /\ phase = "write"
    /\ LET o == McapWriterAddFileMetadata(mw, OtherMetadata)
           p == mw.trace_file_.path
           others == SelectSeq(fs[p].data, LAMBDA x :
                         x = McapMetadata(OtherMetadataName))
       IN  /\ o.ret => Len(others) < MaxWrites
           /\ mw' = o.w
           /\ fs' = IF o.ret THEN [fs EXCEPT ![p].data = @ \o o.appended]
                    ELSE fs
           /\ last' = Call("McapWriter::AddFileMetadata", BoolRet(o.ret))
    /\ UNCHANGED <<codec, phase, br, bw, tr, tw, mr, fin, fout>>

McapWriterAddChannelAct ==
    /\ codec = "mcap"
    /\ phase = "write"
    /\ \E c \in ChannelInputs :
        LET o == McapWriterAddChannel(mw, c[1], c[2])
        IN  /\ mw' = o.w
            /\ last' = Call("McapWriter::AddChannel",
                            IF o.raise THEN "raise" ELSE "value")
    /\ UNCHANGED <<codec, phase, fs, br, bw, tr, tw, mr, fin, fout>>

McapWriterWriteMessageAct ==
    /\ codec = "mcap"
    /\ phase = "write"
    /\ \E m \in WriteMsgs, topic \in Topics \cup { "" } :
        LET o == McapWriterWriteMessage(mw, m, topic)
            p == mw.trace_file_.path
        IN  /\ o.ret => Len(fs[p].written) < MaxWrites
            /\ fs' = IF o.ret
                     THEN [fs EXCEPT ![p].data = @ \o o.appended,
                                     ![p].written = Append(@, m)]
                     ELSE fs
            /\ last' = Call("McapWriter::WriteMessage", BoolRet(o.ret))
    /\ UNCHANGED <<codec, phase, br, bw, tr, tw, mr, mw, fin, fout>>

(***************************************************************************)
(* End of the writer's lifetime.  The destructors close an open file; the  *)
(* reader is used on the files afterwards.                                 *)
(***************************************************************************)
BinWriterDestroyAct ==
    /\ codec = "bin"
    /\ phase = "write"
    /\ phase' = "read"
    /\ bw' = BinWriterInit
    /\ last' = Call("~BinWriter", "void")
    /\ UNCHANGED <<codec, fs, br, tr, tw, mr, mw, fin, fout>>

TxthWriterDestroyAct ==
    /\ codec = "txth"
    /\ phase = "write"
    /\ phase' = "read"
    /\ tw' = TxthWriterInit
    /\ last' = Call("~TxthWriter", "void")
    /\ UNCHANGED <<codec, fs, br, bw, tr, mr, mw, fin, fout>>

\* ~McapWriter closes the library writer, which finalizes an open file
McapWriterDestroyAct ==
    /\ codec = "mcap"
    /\ phase = "write"
    /\ phase' = "read"
    /\ fs' = IF mw.mcap_writer_.opened
             THEN [fs EXCEPT ![mw.trace_file_.path].data = Append(@, McapFooter)]
             ELSE fs
    /\ mw' = McapWriterInit
    /\ fout' = "none"
    /\ last' = Call("~McapWriter", "void")
    /\ UNCHANGED <<codec, br, bw, tr, tw, mr, fin>>

(***************************************************************************)
(* Reader factory                                                          *)
(***************************************************************************)
FactoryDirs == { <<>>, <<"d", "/">>, <<"d", ".", "o", "s", "i", "/">> }

FactoryStems ==
    { <<>>, <<"a">>, <<"a", ".", "b">>, <<".">>, <<"t", "_", "g", "t", "_">>,
      <<"a", ".", "o", "s", "i">> }

FactoryExts ==
    { <<>>, ExtOsi, ExtMcap, ExtTxth, <<".", "x", "y", "z">>,
      <<".", "O", "S", "I">>, <<".", "o", "s", "i", ".">>,
      <<".", "o", "s", "i", "x">>, <<".">>, <<"o", "s", "i">> }

FactoryPaths ==
    { d \o st \o e : d \in FactoryDirs, st \in FactoryStems, e \in FactoryExts }

createReaderAct ==
    /\ codec = "factory"
    /\ fout = "pending"
    /\ fout' = createReader(fin)
    /\ UNCHANGED <<codec, phase, fs, br, bw, tr, tw, mr, mw, last, fin>>

(***************************************************************************)
(* Specifications                                                          *)
(***************************************************************************)
\* the file system before the first call: the file at path main holds c
InitialFs(main, c) ==
    [p \in AllPaths |->
        IF p = main THEN File(c)
        ELSE IF p \in { PathGt, PathPlain, PathTwo, PathBin }
             THEN File(BinFrame(Serialize(MsgGt)))
        ELSE IF p = PathLocked
             THEN [File(BinFrame(Serialize(MsgGt))) EXCEPT !.readable = FALSE]
        ELSE IF p \in { PathTxthGt, PathTxthPlain, PathTxthTwo }
             THEN File(TextFormatPrint(MsgGt))
        ELSE NoFile]

\* every object as constructed, no call made
Constructed ==
    /\ br = BinReaderInit
    /\ bw = BinWriterInit
    /\ tr = TxthReaderInit
    /\ tw = TxthWriterInit
    /\ mr = McapReaderInit
    /\ mw = McapWriterInit
    /\ phase = "write"
    /\ last = NoCall

InitBin ==
    /\ codec = "bin"
    /\ \E c \in InitialBinContents : fs = InitialFs(PathGt, c)
    /\ Constructed
    /\ fin = <<>>
    /\ fout = "none"

NextBin ==
    \/ BinReaderOpenAct
    \/ BinReaderOpenKindAct
    \/ BinReaderCloseAct
    \/ BinReaderHasNextAct
    \/ BinReaderReadMessageAct
    \/ BinWriterOpenAct
    \/ BinWriterCloseAct
    \/ BinWriterWriteMessageAct
    \/ BinWriterDestroyAct

SpecBin == InitBin /\ [][NextBin]_vars

InitTxth ==
    /\ codec = "txth"
    /\ \E c \in InitialTxthContents : fs = InitialFs(PathTxthGt, c)
    /\ Constructed
    /\ fin = <<>>
    /\ fout = "none"

NextTxth ==
    \/ TxthReaderOpenAct
    \/ TxthReaderOpenKindAct
    \/ TxthReaderCloseAct
    \/ TxthReaderHasNextAct
    \/ TxthReaderReadMessageAct
    \/ TxthWriterOpenAct
    \/ TxthWriterCloseAct
    \/ TxthWriterWriteMessageAct
    \/ TxthWriterDestroyAct

SpecTxth == InitTxth /\ [][NextTxth]_vars

InitMcap ==
    /\ codec = "mcap"
    /\ \E c \in InitialMcapContents : fs = InitialFs(PathMcap, c)
    /\ Constructed
    /\ fin = <<>>
    /\ fout = "none"

NextMcap ==
    \/ McapReaderOpenAct
    \/ McapReaderOpenOptionsAct
    \/ McapReaderCloseAct
    \/ McapReaderHasNextAct
    \/ McapReaderSetSkipNonOSIMsgsAct
    \/ McapReaderReadMessageAct
    \/ McapWriterOpenAct
    \/ McapWriterOpenOptionsAct
    \/ McapWriterCloseAct
    \/ McapWriterAddFileMetadataAct
    \/ McapWriterAddChannelAct
    \/ McapWriterWriteMessageAct
    \/ McapWriterDestroyAct

SpecMcap == InitMcap /\ [][NextMcap]_vars

\* the MCAP writer with metadata records of every name and no message
NextMetadata ==
    \/ McapWriterOpenAct
    \/ McapWriterOpenOptionsAct
    \/ McapWriterCloseAct
    \/ McapWriterAddFileMetadataAct
    \/ McapWriterAddOtherMetadataAct

SpecMetadata == InitMcap /\ [][NextMetadata]_vars

\* one codec per behaviour
Init == InitBin \/ InitTxth \/ InitMcap

Next == NextBin \/ NextTxth \/ NextMcap

Spec == Init /\ [][Next]_vars

InitFactory ==
    /\ codec = "factory"
    /\ fs = InitialFs(PathGt, <<>>)
    /\ Constructed
    /\ fin \in FactoryPaths
    /\ fout = "pending"

NextFactory == createReaderAct

SpecFactory == InitFactory /\ [][NextFactory]_vars

(***************************************************************************)
(* Properties                                                              *)
(***************************************************************************)
\* the kinds whose file name infix occurs in the file name of p
InfixKinds(p) ==
    { e.value : e \in { x \in kFileNameMessageTypeMap :
                            Contains(Filename(p), x.key) } }

\* the reader has a file open and bytes of it are unread
BinUnread(r) ==
    r.trace_file_.is_open
    /\ r.trace_file_.pos < Len(fs[r.trace_file_.path].data)

\* the bytes of the open file from the cursor on
BinRest(r) ==
    SubSeq(fs[r.trace_file_.path].data, r.trace_file_.pos + 1,
           Len(fs[r.trace_file_.path].data))

\* the frame at the cursor is malformed: incomplete prefix, length 0,
\* length above kMaxExpectedMessageSize, or fewer payload bytes than length
BinMalformed(rest) ==
    \/ Len(rest) < kBinaryOsiMessageLengthPrefixSize
    \/ LET n == U32FromBytes(rest)
       IN  \/ U32IsZero(n)
           \/ U32Greater(n, kMaxExpectedMessageSize)
           \/ U32ToNat(n) > Len(rest) - kBinaryOsiMessageLengthPrefixSize

\* C4: whenever the binary reader has unread bytes and the frame at the
\* cursor is malformed (incomplete length prefix, length 0, length above
\* kMaxExpectedMessageSize, or too few payload bytes), ReadMessage raises:
\* it returns neither a message nor "no message".
C4_MalformedFrameRaises ==
    (codec = "bin" /\ BinUnread(br) /\ BinMalformed(BinRest(br)))
        => LET o == BinReaderReadMessage(br)
           IN  o.ret = "raise" /\ o.val = NoVal

\* C4 witness: ReadMessage has raised on a file whose only frame announces
\* 100 payload bytes and holds 2.
C4_Witness ==
    /\ last = Call("BinReader::ReadMessage", "raise")
    /\ br.trace_file_.is_open
    /\ br.trace_file_.path = PathGt
    /\ fs[PathGt].data = <<100, 0, 0, 0, 18, 0>>
    /\ br.read_buffer_.size = 100

\* C5: Open on a freshly constructed binary reader, for an existing readable
\* .osi file: with an explicit kind B it succeeds and resolves to B whatever
\* infix the file name holds; with no explicit kind it resolves to a kind
\* whose infix the file name contains; with no explicit kind and no known
\* infix it returns false.
C5_KindResolution ==
    codec = "bin" =>
    \A p \in BinReaderOpenPaths :
        (Extension(p) = ExtOsi /\ fs[p].exists /\ fs[p].readable) =>
            /\ \A B \in ExplicitKinds \ { kUnknown } :
                \A o \in BinReaderOpenKind(BinReaderInit, p, B) :
                    o.ret /\ o.r.message_type_ = B /\ o.r.parser_ = B
            /\ \A o \in BinReaderOpen(BinReaderInit, p)
                        \cup BinReaderOpenKind(BinReaderInit, p, kUnknown) :
                    IF InfixKinds(p) = {} THEN ~o.ret
                    ELSE o.ret /\ o.r.message_type_ \in InfixKinds(p)
                               /\ o.r.parser_ = o.r.message_type_

\* C5 witness: Open(path, kHostVehicleData) has succeeded on the file whose
\* name holds the ground truth infix, and the reader reports the explicit
\* kind.
C5_Witness ==
    /\ last = Call("BinReader::OpenKind", "true")
    /\ br.trace_file_.path = PathGt
    /\ InfixKinds(PathGt) = { "kGroundTruth" }
    /\ br.message_type_ = "kHostVehicleData"
    /\ br.parser_ = "kHostVehicleData"

\* C10: createReader returns a binary reader for the extension .osi, an MCAP
\* reader for .mcap, a text reader for .txth, and throws
\* std::invalid_argument for every other path; it never returns null.
C10_FactoryByExtension ==
    (codec = "factory" /\ fout # "pending") =>
        /\ Extension(fin) = ExtOsi
               => fout = "SingleChannelBinaryTraceFileReader"
        /\ Extension(fin) = ExtMcap => fout = "MCAPTraceFileReader"
        /\ Extension(fin) = ExtTxth => fout = "TXTHTraceFileReader"
        /\ Extension(fin) \notin { ExtOsi, ExtMcap, ExtTxth }
               => fout = "invalid_argument"
        /\ fout # "nullptr"

\* C10 witness: createReader has returned a binary reader for a path in a
\* directory whose own name ends in .osi.
C10_Witness ==
    /\ codec = "factory"
    /\ fin = <<"d", ".", "o", "s", "i", "/", "a">> \o ExtOsi
    /\ fout = "SingleChannelBinaryTraceFileReader"

\* what HasNext must answer, h, for a reader whose stream is s
HasNextAsStated(s, h) ==
    /\ ~s.is_open => ~h
    /\ (s.is_open /\ s.pos >= Len(fs[s.path].data)) => ~h
    /\ (s.is_open /\ s.pos < Len(fs[s.path].data)) => h

\* C3: for every reader, HasNext() is false when the reader was never
\* opened, after a failed Open that left no file open, after Close() and
\* once the whole file has been consumed; it is true while a file is open
\* and holds unread content.
C3_HasNext ==
    /\ codec = "bin" =>
        /\ HasNextAsStated(br.trace_file_, ReaderHasNext(br.trace_file_).ret)
        /\ (br = BinReaderInit \/ last.op = "BinReader::Close")
               => ~ReaderHasNext(br.trace_file_).ret
    /\ codec = "txth" =>
        /\ HasNextAsStated(tr.trace_file_, ReaderHasNext(tr.trace_file_).ret)
        /\ (tr = TxthReaderInit \/ last.op = "TxthReader::Close")
               => ~ReaderHasNext(tr.trace_file_).ret
    /\ codec = "mcap" =>
        /\ ~mr.trace_file_.is_open => ~McapReaderHasNext(mr)
        /\ (mr = McapReaderInit \/ last.op = "McapReader::Close")
               => ~McapReaderHasNext(mr)
        /\ mr.trace_file_.is_open =>
               (McapReaderHasNext(mr)
                    <=> mr.message_iterator_ <= Len(mr.message_view_))

\* C3 witness: HasNext has returned false on a binary reader that consumed
\* every byte of a non-empty file it still has open.
C3_Witness ==
    /\ last = Call("BinReader::HasNext", "false")
    /\ br.trace_file_.is_open
    /\ br.trace_file_.pos = Len(fs[br.trace_file_.path].data)
    /\ br.trace_file_.pos > 0

\* a reader or writer without the error flag of its stream
NoFlag(x) == [x EXCEPT !.trace_file_.failbit = FALSE]

SameMessage(m, val) ==
    /\ val.message.seconds = Val64(NatToVal(m.ts.seconds))
    /\ val.message.nanos = Val32(NatToVal(m.ts.nanos))
    /\ val.message_type = m.kind

\* the round trip of the first message m that a writer stored in a file,
\* read back by a freshly constructed reader of the same codec
BinRoundTrip(p, m) ==
    \A o \in BinReaderOpenKind(BinReaderInit, p, m.kind) :
        /\ o.ret
        /\ ReaderHasNext(o.r.trace_file_).ret
        /\ LET rd == BinReaderReadMessage(o.r)
           IN  rd.ret = "value" /\ SameMessage(m, rd.val)

TxthRoundTrip(p, m) ==
    \A o \in TxthReaderOpenKind(TxthReaderInit, p, m.kind) :
        /\ o.ret
        /\ ReaderHasNext(o.r.trace_file_).ret
        /\ LET rd == TxthReaderReadMessage(o.r)
           IN  rd.ret = "value" /\ SameMessage(m, rd.val)

McapRoundTrip(p, m) ==
    LET o == McapReaderOpen(McapReaderInit, p)
    IN  /\ o.ret
        /\ McapReaderHasNext(o.r)
        /\ LET rd == McapReaderReadMessage(o.r)
           IN  rd.ret = "value" /\ SameMessage(m, rd.val)

\* the first message record of an MCAP file was written on a channel that
\* was registered with the given kind
OnChannelOfKind(data, kind) ==
    LET view == McapMessageView(data, DefaultReadOptions)
    IN  view # <<>> /\ view[1].schema = DescriptorFullName(kind)

\* C1: once the writer is gone, every file in which a writer stored
\* messages (WriteMessage returned true) opens in a fresh reader of the same
\* codec, HasNext() is true, and ReadMessage() returns the first stored
\* message's timestamp.seconds, timestamp.nanos and kind (MCAP: when the
\* message was written on a channel of its own kind).
C1_RoundTrip ==
    phase = "read" =>
        /\ codec = "bin" =>
            \A p \in BinWriterOpenPaths :
                fs[p].written # <<>> => BinRoundTrip(p, fs[p].written[1])
        /\ codec = "txth" =>
            \A p \in TxthWriterOpenPaths :
                fs[p].written # <<>> => TxthRoundTrip(p, fs[p].written[1])
        /\ codec = "mcap" =>
            \A p \in McapWriterOpenPaths :
                (/\ fs[p].written # <<>>
                 /\ OnChannelOfKind(fs[p].data, fs[p].written[1].kind))
                    => McapRoundTrip(p, fs[p].written[1])

\* C2: on every reader and writer that has a file open, every overload of
\* Open (Open(path), Open(path, kind), Open(path, options)) with every
\* argument returns false and leaves the object as it was: open file,
\* cursor, configured message kind, bound parser and stored options.
C2_OpenOnOpenInstance ==
    /\ (codec = "bin" /\ br.trace_file_.is_open) =>
        \A p \in BinReaderOpenPaths :
            /\ \A o \in BinReaderOpen(br, p) : ~o.ret /\ o.r = br
            /\ \A kind \in ExplicitKinds :
                \A o \in BinReaderOpenKind(br, p, kind) : ~o.ret /\ o.r = br
    /\ (codec = "bin" /\ bw.trace_file_.is_open) =>
        \A p \in BinWriterOpenPaths :
            LET o == BinWriterOpen(bw, p)
            IN  ~o.ret /\ o.w = bw /\ ~o.created
    /\ (codec = "txth" /\ tr.trace_file_.is_open) =>
        \A p \in TxthReaderOpenPaths :
            /\ \A o \in TxthReaderOpen(tr, p) : ~o.ret /\ o.r = tr
            /\ \A kind \in ExplicitKinds :
                \A o \in TxthReaderOpenKind(tr, p, kind) : ~o.ret /\ o.r = tr
    /\ (codec = "txth" /\ tw.trace_file_.is_open) =>
        \A p \in TxthWriterOpenPaths :
            LET o == TxthWriterOpen(tw, p)
            IN  ~o.ret /\ o.w = tw /\ ~o.created
    /\ (codec = "mcap" /\ mr.trace_file_.is_open) =>
        \A p \in McapReaderOpenPaths :
            /\ LET o == McapReaderOpen(mr, p) IN ~o.ret /\ o.r = mr
            /\ \A options \in { DefaultReadOptions, CustomReadOptions } :
                LET o == McapReaderOpenOptions(mr, p, options)
                IN  ~o.ret /\ o.r = mr
    /\ (codec = "mcap" /\ mw.trace_file_.is_open) =>
        \A p \in McapWriterOpenPaths :
            /\ LET o == McapWriterOpen(mw, p)
               IN  ~o.ret /\ o.w = mw /\ ~o.created
            /\ \A options \in { DefaultWriterOptions, CustomWriterOptions } :
                LET o == McapWriterOpenOptions(mw, p, options)
                IN  ~o.ret /\ o.w = mw /\ ~o.created

\* the net.asam.osi.trace metadata records of a file
RequiredRecords(data) ==
    SelectSeq(data, LAMBDA x : x.rec = "metadata" /\ x.name = RequiredMetadataName)

\* a net.asam.osi.trace metadata record precedes every message of the file
RequiredRecordFirst(data) ==
    \E i \in 1..Len(data) :
        /\ data[i].rec = "metadata" /\ data[i].name = RequiredMetadataName
        /\ \A j \in 1..i : data[j].rec # "message"

\* C6: in every state an MCAP writer reaches by Open, AddFileMetadata,
\* AddChannel, WriteMessage and Close calls: a file in which WriteMessage
\* stored a message holds the net.asam.osi.trace metadata record before its
\* first message; no file holds that record more than once; and WriteMessage
\* fails on a writer whose open file does not hold the record.
C6_RequiredMetadata ==
    codec = "mcap" =>
        /\ \A p \in McapWriterOpenPaths :
            /\ fs[p].written # <<>> => RequiredRecordFirst(fs[p].data)
            /\ Len(RequiredRecords(fs[p].data)) <= 1
        /\ (mw.trace_file_.is_open
                /\ RequiredRecords(fs[mw.trace_file_.path].data) = <<>>)
            => \A m \in WriteMsgs, topic \in Topics \cup { "" } :
                   ~McapWriterWriteMessage(mw, m, topic).ret

\* topic is registered on writer w: its channel is known to the library
Registered(w, topic) ==
    LET id == w.topic_to_channel_id_[topic]
        lib == w.mcap_writer_
    IN  /\ id # 0
        /\ id <= Len(lib.channels)
        /\ lib.channels[id].topic = topic
        /\ lib.channels[id].schemaId \in 1..Len(lib.schemas)

\* the schema name of the channel of a registered topic
RegisteredName(w, topic) ==
    LET lib == w.mcap_writer_
    IN  lib.schemas[lib.channels[w.topic_to_channel_id_[topic]].schemaId].name

\* C7: AddChannel(topic, kind) on a registered topic returns the topic's
\* channel id and registers nothing when kind is the kind the topic was
\* registered with, and raises when kind is another kind, whatever else is
\* registered on the writer.
C7_AddChannelRegistered ==
    codec = "mcap" =>
        \A topic \in Topics, kind \in { "kGroundTruth", "kHostVehicleData" } :
            Registered(mw, topic) =>
                LET o == McapWriterAddChannel(mw, topic, kind)
                IN  IF DescriptorFullName(kind) = RegisteredName(mw, topic)
                    THEN /\ ~o.raise
                         /\ o.id = mw.topic_to_channel_id_[topic]
                         /\ o.w = mw
                    ELSE o.raise

\* the message the reader r is positioned at
NextStored(r) == r.message_view_[r.message_iterator_]

\* a stored message that is no OSI message: not protobuf-encoded, or its
\* schema name lacks the osi3. prefix
NonOsi(msg) ==
    \/ msg.encoding # "protobuf"
    \/ Len(msg.schema) < 5
    \/ SubSeq(msg.schema, 1, 5) # Osi3

\* the schema name of a stored message is the name of no message kind
Unregistered(msg) == \A e \in deserializer_map_ : e.key # msg.schema

\* ReadMessage() under the policy skip skips the message it is positioned
\* at: it gives what ReadMessage() gives from the next message on
Skips(r, skip) ==
    LET r1 == McapReaderSetSkipNonOSIMsgs(r, skip)
    IN  McapReaderReadMessage(r1)
            = McapReaderReadMessage([r1 EXCEPT !.message_iterator_ = @ + 1])

\* ReadMessage() under the policy skip raises
Raises(r, skip) ==
    McapReaderReadMessage(McapReaderSetSkipNonOSIMsgs(r, skip)).ret = "raise"

\* C8 as stated: every stored message whose schema name is the name of no
\* message kind is skipped when SetSkipNonOSIMsgs(true) was called, and
\* makes ReadMessage raise when SetSkipNonOSIMsgs(false) was called.
C8_SkipUnregistered ==
    (codec = "mcap" /\ McapReaderHasNext(mr) /\ Unregistered(NextStored(mr)))
        => Skips(mr, TRUE) /\ Raises(mr, FALSE)

\* C8: a stored message that is no OSI message (not protobuf-encoded, or
\* schema name without the osi3. prefix) is skipped when
\* SetSkipNonOSIMsgs(true) was called and makes ReadMessage raise when
\* SetSkipNonOSIMsgs(false) was called; a protobuf message whose schema
\* name has the osi3. prefix but is the name of no message kind makes
\* ReadMessage raise under either policy.
C8_SkipNonOsi ==
    (codec = "mcap" /\ McapReaderHasNext(mr)) =>
        /\ NonOsi(NextStored(mr)) => Skips(mr, TRUE) /\ Raises(mr, FALSE)
        /\ (~NonOsi(NextStored(mr)) /\ Unregistered(NextStored(mr)))
               => Raises(mr, TRUE) /\ Raises(mr, FALSE)

\* C8 witness: with skipping enabled, ReadMessage skipped a message of a
\* JSON schema and returned the OSI message stored after it.
C8_Witness ==
    /\ last = Call("McapReader::ReadMessage", "value")
    /\ mr.skip_non_osi_msgs_
    /\ mr.message_iterator_ = 3
    /\ mr.message_view_[1].encoding = "jsonschema"

\* the messages with a printed text
PrintedMsgs == { MsgGt, MsgHvd }

\* C11: a .txth file that holds the printed text of exactly one message,
\* opened by a fresh text reader: the first ReadMessage() returns that
\* message and leaves the cursor at the end of the file; HasNext() is then
\* false and a second ReadMessage() returns nothing.
C11_SingleMessageFile ==
    codec = "txth" =>
        \A p \in { q \in TxthReaderOpenPaths : Extension(q) = ExtTxth /\ exists(q) } :
            \A m \in PrintedMsgs :
                fs[p].data = TextFormatPrint(m) =>
                    \A o \in TxthReaderOpenKind(TxthReaderInit, p, m.kind) :
                        LET first == TxthReaderReadMessage(o.r)
                            second == TxthReaderReadMessage(first.r)
                        IN  /\ o.ret
                            /\ first.ret = "value"
                            /\ SameMessage(m, first.val)
                            /\ first.r.trace_file_.pos = Len(fs[p].data)
                            /\ ~ReaderHasNext(first.r.trace_file_).ret
                            /\ second.ret = "nullopt"
                            /\ ~ReaderHasNext(second.r.trace_file_).ret

\* C11 witness: a second ReadMessage() has returned nothing on a reader
\* that is at the end of a file holding one printed message.
C11_Witness ==
    /\ last = Call("TxthReader::ReadMessage", "nullopt")
    /\ tr.trace_file_.is_open
    /\ tr.trace_file_.path = PathTxthGt
    /\ fs[PathTxthGt].data = TextFormatPrint(MsgGt)
    /\ tr.trace_file_.pos = Len(fs[PathTxthGt].data)
    /\ tr.parser_ = "kGroundTruth"

\* [len as 4-byte little-endian unsigned integer][payload] of each message
\* of ms, in order
RECURSIVE Framed(_)
Framed(ms) ==
    IF ms = <<>> THEN <<>>
    ELSE LET payload == Serialize(Head(ms))
             n == Len(payload)
         IN  <<n % 256, (n \div 256) % 256, (n \div 65536) % 256, n \div 16777216>>
                 \o payload \o Framed(Tail(ms))

\* sum over the messages of ms of 4 + the length of the payload
RECURSIVE FramedSize(_)
FramedSize(ms) ==
    IF ms = <<>> THEN 0 ELSE 4 + Len(Serialize(Head(ms))) + FramedSize(Tail(ms))

\* C19: a file in which the binary writer stored the messages m1..mk
\* (WriteMessage returned true k times since Open) holds exactly the frames
\* [4-byte little-endian length][payload] of m1..mk in call order, nothing
\* before, between or after them, while the writer has the file open and
\* after Close; a file just opened by the writer is empty.
C19_BinaryFraming ==
    codec = "bin" =>
        /\ \A p \in BinWriterOpenPaths :
            fs[p].written # <<>> =>
                /\ fs[p].data = Framed(fs[p].written)
                /\ Len(fs[p].data) = FramedSize(fs[p].written)
        /\ (bw.trace_file_.is_open /\ fs[bw.trace_file_.path].written = <<>>)
               => fs[bw.trace_file_.path].data = <<>>

\* C19 witness: the writer was closed after two successful WriteMessage
\* calls, the first with an empty payload.
C19_Witness ==
    /\ last = Call("BinWriter::Close", "void")
    /\ ~bw.trace_file_.is_open
    /\ fs[PathGt].written = <<MsgDefault, MsgHvd>>

\* a reader without the error flags of its stream
NoFlags(x) ==
    [x EXCEPT !.trace_file_.failbit = FALSE, !.trace_file_.eofbit = FALSE]

\* the stream s has nothing to read: no file open, failed, or at the end
NothingToRead(s) ==
    ~s.is_open \/ s.failbit \/ s.pos >= Len(fs[s.path].data)

\* C20: on every reader for which HasNext() is false (never opened, closed
\* or exhausted), ReadMessage() returns an empty result, does not raise,
\* and changes nothing of the reader but the error flags that the look at
\* the end of the file sets on the stream; HasNext() is false afterwards.
C20_ReadWithoutNext ==
    /\ (codec = "bin" /\ NothingToRead(br.trace_file_)) =>
        LET o == BinReaderReadMessage(br)
        IN  /\ o.ret = "nullopt" /\ o.val = NoVal
            /\ NoFlags(o.r) = NoFlags(br)
            /\ ~ReaderHasNext(o.r.trace_file_).ret
    /\ (codec = "txth" /\ NothingToRead(tr.trace_file_)) =>
        LET o == TxthReaderReadMessage(tr)
        IN  /\ o.ret = "nullopt" /\ o.val = NoVal
            /\ NoFlags(o.r) = NoFlags(tr)
            /\ ~ReaderHasNext(o.r.trace_file_).ret
    /\ (codec = "mcap" /\ ~McapReaderHasNext(mr)) =>
        LET o == McapReaderReadMessage(mr)
        IN  /\ o.ret = "nullopt" /\ o.val = NoVal
            /\ o.r = mr
            /\ ~McapReaderHasNext(o.r)

\* C20 witness: ReadMessage() has returned nothing on a binary reader that
\* is at the end of a non-empty file it has open.
C20_Witness ==
    /\ last = Call("BinReader::ReadMessage", "nullopt")
    /\ br.trace_file_.is_open
    /\ br.trace_file_.pos = Len(fs[br.trace_file_.path].data)
    /\ br.trace_file_.pos > 0
    /\ br.read_buffer_.size > 0

(***************************************************************************)
(* OsiFileAnalyzer::ExtractTimestampNanoseconds (OsiFileAnalyzer.cpp): a   *)
(* scan of the serialized message for the first length-delimited field 2   *)
(* or 10 that parses as a Timestamp.  Indices are those of the sequence    *)
(* (the code's cursor + 1); 64-bit values are base-128 digit sequences.    *)
(***************************************************************************)
\* the least size of a buffer the scan looks at
kMinTimestampBufferSize == 6

\* the bound of nanos, and the factor of seconds
kNanosPerSecond == 1000000000

NoTimestampNs == [has |-> FALSE, ns |-> <<>>]

\* read_varint(limit, cursor, value): at most ten bytes before limit
AnalyzerReadVarint(b, i, limit) ==
    ReadVarint(SubSeq(b, 1, Min(limit, Len(b))), i)

\* the indices that read_varint(limit, cursor, value) dereferences: up to the
\* byte that ends the varint, and otherwise ten bytes or all bytes before
\* limit, whether the buffer holds them or not
VarintReads(b, i, limit) ==
    LET r == AnalyzerReadVarint(b, i, limit)
    IN  IF r.ok THEN i..(r.next - 1) ELSE i..Min(limit, i + 9)

\* static_cast<uint32_t>(tag >> 3) for the groups of a tag; 2^31 - 1 stands
\* for every number that does not fit 31 bits
AnalyzerFieldNum(g) ==
    LET d(k) == IF k <= Len(g) THEN g[k] ELSE 0
    IN  IF d(5) >= 64 THEN 2147483647
        ELSE (d(1) \div 8)
                 + 16 * (d(2) + 128 * d(3) + 16384 * d(4) + 2097152 * d(5))

\* cursor + len in size_t (64 bits), for the index i = cursor + 1; 2^31 - 1
\* stands for every sum that does not fit 31 bits
AnalyzerAdvance(i, len) ==
    LET s == ValToNat(Val64(AddDigits(NatToVal(i - 1), Val64(len), 0)))
    IN  IF s = 2147483647 THEN s ELSE s + 1

\* static_cast<uint64_t>(seconds) * 1000000000ULL + nanos (64 bits)
AnalyzerTimestampNs(seconds, nanos) ==
    LET k == kNanosPerSecond \div 1000000
        m == MulSmall(MulSmall(MulSmall(seconds, k, 0), k, 0), k, 0)
    IN  Val64(AddDigits(m, nanos, 0))

\* nanos = static_cast<uint32_t>(value): the low 32 bits
NanosOfVarint(v) == Val32(v)

\* seconds < 0 for seconds = static_cast<int64_t>(value): bit 63 is set
SecondsNegative(v) == Len(Val64(v)) = 10

\* a test that lets every field pass
PastLimitNever(nxt, limit) == FALSE

\* pos + len > size, for the index nxt of pos + len
PastLimit(nxt, limit) == nxt > limit + 1

\* one iteration of the loop of parse_timestamp_submessage, at index
\* i <= end: [fail, next, acc, reads]; acc holds seconds, nanos, has_seconds,
\* has_nanos, reads the indices dereferenced
ParseTimestampStep(b, i, end, acc) ==
    LET t == AnalyzerReadVarint(b, i, end)
        field_num == AnalyzerFieldNum(t.groups)
        wire_type == t.groups[1] % 8
        tag_reads == VarintReads(b, i, end)
        stop(reads) == [fail |-> TRUE, next |-> i, acc |-> acc, reads |-> reads]
        go(nxt, a, reads) ==
            [fail |-> FALSE, next |-> nxt, acc |-> a, reads |-> reads]
    IN  IF ~t.ok THEN stop(tag_reads)
        ELSE IF wire_type = WireVarint THEN
            LET v == AnalyzerReadVarint(b, t.next, end)
                reads == tag_reads \cup VarintReads(b, t.next, end)
            IN  IF ~v.ok THEN stop(reads)
                ELSE go(v.next,
                        IF field_num = 1
                        THEN [acc EXCEPT !.seconds = Val64(v.groups),
                                         !.has_seconds = TRUE]
                        ELSE IF field_num = 2
                        THEN [acc EXCEPT !.nanos = NanosOfVarint(v.groups),
                                         !.has_nanos = TRUE]
                        ELSE acc, reads)
        ELSE IF wire_type = WireFixed64 THEN
            IF PastLimit(t.next + 8, end) THEN stop(tag_reads)
            ELSE go(t.next + 8, acc, tag_reads)
        ELSE IF wire_type = WireLengthDelimited THEN
            LET l == AnalyzerReadVarint(b, t.next, end)
                nxt == AnalyzerAdvance(l.next, l.groups)
                reads == tag_reads \cup VarintReads(b, t.next, end)
            IN  IF ~l.ok \/ PastLimit(nxt, end) THEN stop(reads)
                ELSE go(nxt, acc, reads)
        ELSE IF wire_type = WireFixed32 THEN
            IF PastLimit(t.next + 4, end) THEN stop(tag_reads)
            ELSE go(t.next + 4, acc, tag_reads)
        ELSE stop(tag_reads)

\* parse_timestamp_submessage: the fields in [i, end], then the result
RECURSIVE ParseTimestampFields(_, _, _, _)
ParseTimestampFields(b, i, end, acc) ==
    IF i > end THEN
        IF ~acc.has_seconds /\ ~acc.has_nanos THEN NoTimestampNs
        ELSE IF ValToNat(acc.nanos) >= kNanosPerSecond
                    \/ SecondsNegative(acc.seconds) THEN NoTimestampNs
        ELSE [has |-> TRUE, ns |-> AnalyzerTimestampNs(acc.seconds, acc.nanos)]
    ELSE
    \* the step is bound to its value, and so evaluated once
    CHOOSE res \in
        { IF st.fail THEN NoTimestampNs
          ELSE ParseTimestampFields(b, st.next, end, st.acc) :
              st \in { ParseTimestampStep(b, i, end, acc) } } : TRUE

\* the locals of parse_timestamp_submessage before its loop
NoTimestampFields ==
    [seconds |-> <<>>, nanos |-> <<>>,
     has_seconds |-> FALSE, has_nanos |-> FALSE]

parse_timestamp_submessage(b, start, length) ==
    ParseTimestampFields(b, start, start + length - 1, NoTimestampFields)

\* a scan that takes field 10 alone for a timestamp
OnlyField10(field_num) == field_num = 10

is_candidate_timestamp_field(field_num) == field_num = 2 \/ field_num = 10

\* one iteration of the loop over the top-level fields, at index i <= size:
\* [kind, next, start, reads].  kind is "return" (std::nullopt), "next"
\* (the loop goes on at next) or "sub" (parse_timestamp_submessage is called
\* for the indices start .. next - 1, and the loop goes on at next when it
\* finds no timestamp).
ExtractStep(b, i) ==
    LET size == Len(b)
        t == AnalyzerReadVarint(b, i, size)
        field_num == AnalyzerFieldNum(t.groups)
        wire_type == t.groups[1] % 8
        tag_reads == VarintReads(b, i, size)
        stop(reads) ==
            [kind |-> "return", next |-> i, start |-> i, reads |-> reads]
        go(nxt, reads) ==
            [kind |-> "next", next |-> nxt, start |-> i, reads |-> reads]
    IN  IF ~t.ok THEN stop(tag_reads)
        ELSE IF wire_type = WireVarint THEN
            LET v == AnalyzerReadVarint(b, t.next, size)
                reads == tag_reads \cup VarintReads(b, t.next, size)
            IN  IF ~v.ok THEN stop(reads) ELSE go(v.next, reads)
        ELSE IF wire_type = WireFixed64 THEN
            IF PastLimit(t.next + 8, size) THEN stop(tag_reads)
            ELSE go(t.next + 8, tag_reads)
        ELSE IF wire_type = WireLengthDelimited THEN
            LET l == AnalyzerReadVarint(b, t.next, size)
                nxt == AnalyzerAdvance(l.next, l.groups)
                reads == tag_reads \cup VarintReads(b, t.next, size)
            IN  IF ~l.ok \/ PastLimit(nxt, size) THEN stop(reads)
                ELSE IF is_candidate_timestamp_field(field_num)
                THEN [kind |-> "sub", next |-> nxt, start |-> l.next,
                      reads |-> reads]
                ELSE go(nxt, reads)
        ELSE IF wire_type = WireFixed32 THEN
            IF PastLimit(t.next + 4, size) THEN stop(tag_reads)
            ELSE go(t.next + 4, tag_reads)
        ELSE stop(tag_reads)

\* the loop over the top-level fields, from index i
RECURSIVE ExtractFrom(_, _)
ExtractFrom(b, i) ==
    IF i > Len(b) THEN NoTimestampNs
    ELSE
    \* the step and the result of the submessage are bound to their values,
    \* and so evaluated once
    CHOOSE res \in
        { IF st.kind = "return" THEN NoTimestampNs
          ELSE CHOOSE sub \in
                   { IF ts.has THEN ts ELSE ExtractFrom(b, st.next) :
                         ts \in { IF st.kind = "sub"
                                  THEN parse_timestamp_submessage(
                                           b, st.start, st.next - st.start)
                                  ELSE NoTimestampNs } } : TRUE :
              st \in { ExtractStep(b, i) } } : TRUE

\* ExtractTimestampNanoseconds(data): [has, ns]
ExtractTimestampNanoseconds(data) ==
    IF Len(data) < kMinTimestampBufferSize THEN NoTimestampNs
    ELSE ExtractFrom(data, 1)

(***************************************************************************)
(* Buffers handed to ExtractTimestampNanoseconds: fields that are not      *)
(* timestamps, then a length-delimited field holding a Timestamp, then     *)
(* possibly a second one.                                                  *)
(***************************************************************************)
\* 2^32 + 5 and 2^32 + 10^9, as digits
Nanos2p32Plus5 == <<5, 0, 0, 0, 16>>
Nanos2p32PlusE9 == AddDigits(NatToVal(kNanosPerSecond), <<0, 0, 0, 0, 16>>, 0)

\* 18446744073 = (2^64 - 1) div 10^9, as digits
SecondsMax == AddDigits(MulSmall(NatToVal(1844674407), 10, 0), <<3>>, 0)

\* -1 as int64: the ten groups of 2^64 - 1
SecondsMinusOne == <<127, 127, 127, 127, 127, 127, 127, 127, 127, 1>>

ExtractSeconds ==
    { <<>>, NatToVal(1), NatToVal(42), SecondsMax, SecondsMinusOne }

ExtractNanos ==
    { <<>>, NatToVal(5), NatToVal(123456), NatToVal(kNanosPerSecond - 1),
      NatToVal(kNanosPerSecond), Nanos2p32Plus5, Nanos2p32PlusE9 }

\* well-formed fields with numbers other than 2 and 10, one per wire type
FieldVarint == <<1 * 8 + WireVarint>> \o Varint(300)
FieldFixed64 == <<3 * 8 + WireFixed64, 1, 2, 3, 4, 5, 6, 7, 8>>
FieldBytes == <<4 * 8 + WireLengthDelimited, 3, 16, 10, 255>>
FieldFixed32 == <<5 * 8 + WireFixed32, 1, 2, 3, 4>>

ExtractPrefixes ==
    { <<>>, FieldVarint, FieldFixed64, FieldBytes, FieldFixed32,
      FieldBytes \o FieldVarint \o FieldFixed32 \o FieldFixed64 }

\* a length-delimited field holding seconds (field 1) and nanos (field 2);
\* with omit_zero a zero is left out, as the serializer leaves it out
TimestampField(field, seconds, nanos, omit_zero) ==
    LET body == (IF omit_zero /\ seconds = <<>> THEN <<>>
                 ELSE <<1 * 8 + WireVarint>> \o VarintOfVal(seconds))
                \o (IF omit_zero /\ nanos = <<>> THEN <<>>
                    ELSE <<2 * 8 + WireVarint>> \o VarintOfVal(nanos))
    IN  <<field * 8 + WireLengthDelimited>> \o Varint(Len(body)) \o body

\* the timestamp of the second field, where there is one: 7 s 9 ns
ExtractSuffixes == { <<>>, TimestampField(10, NatToVal(7), NatToVal(9), FALSE) }

ExtractInputs ==
    [pre : ExtractPrefixes, field : { 2, 10, 3 }, seconds : ExtractSeconds,
     nanos : ExtractNanos, omit_zero : BOOLEAN, post : ExtractSuffixes]

ExtractBuffer(in) ==
    in.pre \o TimestampField(in.field, in.seconds, in.nanos, in.omit_zero)
        \o in.post

ExtractTimestampNanosecondsAct ==
    /\ codec = "extract"
    /\ last = NoCall
    /\ fout' = ExtractTimestampNanoseconds(ExtractBuffer(fin))
    /\ last' = Call("OsiFileAnalyzer::ExtractTimestampNanoseconds",
                    IF fout'.has THEN "value" ELSE "nullopt")
    /\ UNCHANGED <<codec, phase, fs, br, bw, tr, tw, mr, mw, fin>>

InitExtract ==
    /\ codec = "extract"
    /\ fs = InitialFs(PathGt, <<>>)
    /\ Constructed
    /\ fin \in ExtractInputs
    /\ fout = NoVal

NextExtract == ExtractTimestampNanosecondsAct

SpecExtract == InitExtract /\ [][NextExtract]_vars

\* the input encodes seconds and nanos in full and the field is field 2
FullField2(in) == in.field = 2 /\ ~in.omit_zero

\* seconds * 10^9 + nanos without any reduction, for seconds >= 0
ExactNs(seconds, nanos) ==
    LET m == MulSmall(MulSmall(MulSmall(seconds, 1000, 0), 1000, 0), 1000, 0)
    IN  StripZeros(AddDigits(m, nanos, 0))

\* v < 2^64
FitsU64(v) == Len(v) < 10 \/ (Len(v) = 10 /\ v[10] < 2)

\* v < 10^9
BelowE9(v) == ValToNat(v) < 1000000000

\* C13: no timestamp is returned for a buffer whose field-2 submessage
\* encodes nanos >= 10^9 (whatever the size of the varint) or negative
\* seconds; stated for the buffers that hold no other field 2 or 10.
C13_InvalidTimestampRejected ==
    (codec = "extract" /\ last # NoCall /\ FullField2(fin)
        /\ fin.post = <<>>
        /\ (~BelowE9(fin.nanos) \/ SecondsNegative(fin.seconds)))
    => ~fout.has

\* C14: for seconds s >= 0 and nanos n < 10^9 with s * 10^9 + n < 2^64, a
\* buffer of well-formed fields other than 2 and 10 followed by a field-2
\* submessage with seconds s and nanos n yields exactly s * 10^9 + n.
C14_ValidTimestampExtracted ==
    (codec = "extract" /\ last # NoCall /\ FullField2(fin)
        /\ ~SecondsNegative(fin.seconds) /\ BelowE9(fin.nanos)
        /\ FitsU64(ExactNs(fin.seconds, fin.nanos)))
    => /\ fout.has
       /\ fout.ns = ExactNs(fin.seconds, fin.nanos)
       /\ (fin.seconds = NatToVal(1) /\ fin.nanos = NatToVal(5))
              => ValToNat(fout.ns) = 1000000005

\* C14 witness: seconds 42 and nanos 123456 have been extracted from a
\* buffer in which four other fields precede the timestamp.
C14_Witness ==
    /\ codec = "extract"
    /\ last # NoCall
    /\ FullField2(fin)
    /\ fin.pre = FieldBytes \o FieldVarint \o FieldFixed32 \o FieldFixed64
    /\ fin.seconds = NatToVal(42)
    /\ fin.nanos = NatToVal(123456)
    /\ fout.has
    /\ fout.ns = ExactNs(NatToVal(42), NatToVal(123456))

(***************************************************************************)
(* OsiFileAnalyzer::Analyze (OsiFileAnalyzer.cpp).  A double is modelled   *)
(* by the rational number it approximates, [n, d] in lowest terms; d = 0   *)
(* is an infinity.  Timestamps are 64-bit digit sequences; a duration is   *)
(* converted to a double through ValToNat.                                 *)
(***************************************************************************)
RECURSIVE GCD(_, _)
GCD(a, b) == IF b = 0 THEN a ELSE GCD(b, a % b)

Rat(n, d) ==
    LET g == GCD(IF n < 0 THEN -n ELSE n, d)
    IN  IF g = 0 THEN [n |-> 0, d |-> 1] ELSE [n |-> n \div g, d |-> d \div g]

RatZero == [n |-> 0, d |-> 1]

\* x / y for y > 0, cancelling before multiplying
RatDiv(x, y) ==
    LET g == GCD(IF x.n < 0 THEN -x.n ELSE x.n, y.n)
        h == GCD(x.d, y.d)
    IN  IF y.n = 0 THEN [n |-> 1, d |-> 0]
        ELSE Rat((x.n \div g) * (y.d \div h), (x.d \div h) * (y.n \div g))

\* x * y, cancelling before multiplying
RatMul(x, y) ==
    LET g == GCD(IF x.n < 0 THEN -x.n ELSE x.n, y.d)
        h == GCD(IF y.n < 0 THEN -y.n ELSE y.n, x.d)
    IN  Rat((x.n \div g) * (y.n \div h), (x.d \div h) * (y.d \div g))

RatPositive(x) == x.n > 0

\* std::isfinite
RatFinite(x) == x.d # 0

RatLess(x, y) == x.n * y.d < y.n * x.d

RECURSIVE DigitsCmp(_, _, _)
DigitsCmp(a, b, i) ==
    IF i = 0 THEN 0
    ELSE IF a[i] # b[i] THEN (IF a[i] < b[i] THEN -1 ELSE 1)
    ELSE DigitsCmp(a, b, i - 1)

\* a >= b on digit sequences without trailing zeros
DigitsGeq(a, b) ==
    IF Len(a) # Len(b) THEN Len(a) > Len(b) ELSE DigitsCmp(a, b, Len(a)) >= 0

\* a - b - borrow on digit sequences, a >= b
RECURSIVE SubDigits(_, _, _)
SubDigits(a, b, borrow) ==
    IF a = <<>> THEN <<>>
    ELSE LET x == a[1] - (IF b = <<>> THEN 0 ELSE b[1]) - borrow
         IN  <<x % 128>> \o SubDigits(Tail(a), IF b = <<>> THEN b ELSE Tail(b),
                                      IF x < 0 THEN 1 ELSE 0)

kDefaultAssumedFrameRateHz == 100

U32Zero == [hi |-> 0, lo |-> 0]

\* ReadMessageSize(file): [size, s]; 0 when the four bytes cannot be read
AnalyzerReadMessageSize(s) ==
    LET r == StreamRead(s, kBinaryOsiMessageLengthPrefixSize)
    IN  [size |-> IF StreamOk(r.s) THEN U32FromBytes(r.data) ELSE U32Zero,
         s |-> r.s]

\* basic_istream::seekg(off, cur) on a file: clears eofbit; no effect on a
\* failed stream; a position past the end of the file is accepted
StreamSeekgCur(s, off) ==
    IF s.failbit THEN [s EXCEPT !.eofbit = FALSE]
    ELSE IF ~s.is_open THEN [s EXCEPT !.eofbit = FALSE, !.failbit = TRUE]
    ELSE [s EXCEPT !.eofbit = FALSE, !.pos = s.pos + off]

\* SkipMessage(file, message_size): [ret, s]
AnalyzerSkipMessage(s, message_size) ==
    LET t == StreamSeekgCur(s, message_size)
    IN  [ret |-> StreamGood(t), s |-> t]

\* the sizes gathered by pass 1 before its first frame; min_message_size
\* holds the size of the first frame from then on
Pass1Init ==
    [min_message_size |-> 0, max_message_size |-> 0,
     total_message_bytes |-> 0, total_messages |-> 0]

\* pass 1: the loop over the length prefixes, from the stream s
RECURSIVE Pass1(_, _)
Pass1(s, acc) ==
    LET p == StreamPeek(s)
        r == AnalyzerReadMessageSize(p.s)
    IN  IF p.c = "EOF" THEN acc
        ELSE IF U32IsZero(r.size) THEN acc
        ELSE IF U32Greater(r.size, kMaxExpectedMessageSize) THEN acc
        ELSE
        LET message_size == U32ToNat(r.size)
            k == AnalyzerSkipMessage(r.s, message_size)
            acc2 == [min_message_size |->
                         IF acc.total_messages = 0 THEN message_size
                         ELSE Min(acc.min_message_size, message_size),
                     max_message_size |->
                         IF acc.max_message_size > message_size
                         THEN acc.max_message_size ELSE message_size,
                     total_message_bytes |->
                         acc.total_message_bytes + message_size,
                     total_messages |-> acc.total_messages + 1]
        IN  IF ~k.ret THEN acc2 ELSE Pass1(k.s, acc2)

\* a sample size that never counts as sampling
TimestampSampleSizeUnsampled(sample_size, total_messages) ==
    [timestamp_sample_size |-> total_messages, is_sampled |-> FALSE]

\* timestamp_sample_size and is_sampled
TimestampSampleSize(sample_size, total_messages) ==
    LET k == IF sample_size = 0 \/ sample_size >= total_messages
             THEN total_messages
             ELSE IF total_messages > 1 /\ sample_size < 2 THEN 2
             ELSE sample_size
    IN  [timestamp_sample_size |-> Min(k, total_messages),
         is_sampled |-> ~(sample_size = 0 \/ sample_size >= total_messages)]

\* indices rounded to the nearest frame
SampleIndicesRounded(timestamp_sample_size, total_messages) ==
    IF timestamp_sample_size = total_messages \/ timestamp_sample_size = 0
    THEN <<>>
    ELSE IF timestamp_sample_size = 1 THEN <<0>>
    ELSE [j \in 1..timestamp_sample_size |->
             (2 * (j - 1) * (total_messages - 1) + (timestamp_sample_size - 1))
                 \div (2 * (timestamp_sample_size - 1))]

\* indices a fixed stride total_messages / timestamp_sample_size apart
SampleIndicesStride(timestamp_sample_size, total_messages) ==
    IF timestamp_sample_size = total_messages \/ timestamp_sample_size = 0
    THEN <<>>
    ELSE IF timestamp_sample_size = 1 THEN <<0>>
    ELSE [j \in 1..timestamp_sample_size |->
             (j - 1) * (total_messages \div timestamp_sample_size)]

\* sample_indices: empty when every frame is sampled
SampleIndices(timestamp_sample_size, total_messages) ==
    IF timestamp_sample_size = total_messages \/ timestamp_sample_size = 0
    THEN <<>>
    ELSE IF timestamp_sample_size = 1 THEN <<0>>
    ELSE [j \in 1..timestamp_sample_size |->
             ((j - 1) * (total_messages - 1))
                 \div (timestamp_sample_size - 1)]

Pass2Init ==
    [message_index |-> 0, sample_cursor |-> 0,
     first_timestamp |-> NoTimestampNs, last_timestamp |-> NoTimestampNs,
     payloads_read |-> <<>>]

\* pass 2: the loop over the frames; payloads_read lists the indices of the
\* frames whose payload has been read
RECURSIVE Pass2(_, _, _, _, _)
Pass2(s, total_messages, sample_all, sample_indices, acc) ==
    LET p == StreamPeek(s)
        r == AnalyzerReadMessageSize(p.s)
        at_cursor == /\ acc.sample_cursor < Len(sample_indices)
                     /\ sample_indices[acc.sample_cursor + 1] = acc.message_index
        should_sample == sample_all \/ at_cursor
    IN  IF p.c = "EOF" \/ ~(acc.message_index < total_messages) THEN acc
        ELSE IF U32IsZero(r.size) THEN acc
        ELSE IF should_sample THEN
            LET d == StreamRead(r.s, U32ToNat(r.size))
                ts == ExtractTimestampNanoseconds(d.data)
            IN  IF ~StreamOk(d.s) THEN acc
                ELSE Pass2(d.s, total_messages, sample_all, sample_indices,
                        [message_index |-> acc.message_index + 1,
                         sample_cursor |->
                             IF ~sample_all /\ at_cursor
                             THEN acc.sample_cursor + 1 ELSE acc.sample_cursor,
                         first_timestamp |->
                             IF ts.has /\ ~acc.first_timestamp.has
                             THEN ts ELSE acc.first_timestamp,
                         last_timestamp |->
                             IF ts.has THEN ts ELSE acc.last_timestamp,
                         payloads_read |->
                             Append(acc.payloads_read, acc.message_index)])
        ELSE
            LET k == AnalyzerSkipMessage(r.s, U32ToNat(r.size))
            IN  IF ~k.ret THEN acc
                ELSE Pass2(k.s, total_messages, sample_all, sample_indices,
                        [acc EXCEPT !.message_index = @ + 1])

\* a fallback that leaves the rate as the timestamps gave it
FrameRateFallbackNone(st) == st

\* the substitution of the assumed rate when none could be derived
FrameRateFallback(st) ==
    IF ~RatPositive(st.frame_rate_hz) \/ ~RatFinite(st.frame_rate_hz)
    THEN [st EXCEPT
            !.frame_rate_hz = Rat(kDefaultAssumedFrameRateHz, 1),
            !.avg_frame_interval_seconds = Rat(1, kDefaultAssumedFrameRateHz),
            !.bytes_per_second =
                IF RatPositive(st.avg_message_size)
                THEN RatMul(st.avg_message_size,
                            Rat(kDefaultAssumedFrameRateHz, 1))
                ELSE @]
    ELSE st

\* the timing statistics derived from the sampled timestamps
DerivedStatistics(st, first_timestamp, last_timestamp, total_messages) ==
    IF first_timestamp.has /\ last_timestamp.has /\ DigitsGeq(last_timestamp.ns, first_timestamp.ns)
           /\ total_messages > 1
    THEN LET duration_ns == StripZeros(SubDigits(last_timestamp.ns, first_timestamp.ns, 0))
             duration_seconds == Rat(ValToNat(duration_ns), kNanosPerSecond)
             interval == RatDiv(duration_seconds, Rat(total_messages - 1, 1))
             timed == [st EXCEPT !.first_timestamp_ns = first_timestamp.ns,
                                 !.last_timestamp_ns = last_timestamp.ns,
                                 !.duration_seconds = duration_seconds]
         IN  IF RatPositive(duration_seconds)
             THEN [timed EXCEPT
                     !.avg_frame_interval_seconds = interval,
                     !.frame_rate_hz = RatDiv(Rat(1, 1), interval),
                     !.bytes_per_second =
                         RatDiv(Rat(st.total_message_bytes, 1),
                                duration_seconds)]
             ELSE timed
    ELSE st

\* OsiFileStatistics after pass 1
SizeStatistics(path, p1, ss) ==
    [file_path |-> path,
     file_size_bytes |-> Len(fs[path].data),
     message_count |-> p1.total_messages,
     is_sampled |-> ss.is_sampled,
     total_message_count_estimate |-> p1.total_messages,
     timestamp_sample_count |-> ss.timestamp_sample_size,
     min_message_size |-> p1.min_message_size,
     max_message_size |-> p1.max_message_size,
     avg_message_size |-> Rat(p1.total_message_bytes, p1.total_messages),
     total_message_bytes |-> p1.total_message_bytes,
     first_timestamp_ns |-> <<>>,
     last_timestamp_ns |-> <<>>,
     duration_seconds |-> RatZero,
     avg_frame_interval_seconds |-> RatZero,
     frame_rate_hz |-> RatZero,
     bytes_per_second |-> RatZero]

NoStatistics == [has |-> FALSE]

\* Analyze(file_path, sample_size): [has, stats, payloads_read]
Analyze(file_path, sample_size) ==
    IF ~exists(file_path) THEN NoStatistics
    ELSE IF Extension(file_path) # ExtOsi THEN NoStatistics
    ELSE
    LET file == IfstreamOpen(file_path)
        p1 == Pass1(file, Pass1Init)
        total_messages == p1.total_messages
        ss == TimestampSampleSize(sample_size, total_messages)
        sample_indices == SampleIndices(ss.timestamp_sample_size, total_messages)
        sample_all == ss.timestamp_sample_size = total_messages
        rewound == StreamSeekg([file EXCEPT !.failbit = FALSE,
                                            !.eofbit = FALSE], 0)
        p2 == Pass2(rewound, total_messages, sample_all, sample_indices,
                    Pass2Init)
    IN  IF ~StreamOk(file) THEN NoStatistics
        ELSE IF total_messages = 0 THEN NoStatistics
        ELSE IF ~StreamOk(rewound) THEN NoStatistics
        ELSE [has |-> TRUE,
              stats |-> FrameRateFallback(
                            DerivedStatistics(SizeStatistics(file_path, p1, ss),
                                p2.first_timestamp, p2.last_timestamp,
                                total_messages)),
              payloads_read |-> p2.payloads_read]

(***************************************************************************)
(* Files handed to Analyze: frames of payloads with and without a          *)
(* timestamp, followed by nothing or by a frame that is not well-formed.   *)
(***************************************************************************)
\* serialized messages stamped 1 s, 1.5 s and 2 s, and one with no timestamp
PayloadA == TimestampField(2, NatToVal(1), <<>>, FALSE)
PayloadB == TimestampField(2, NatToVal(1), NatToVal(500000000), FALSE)
PayloadC == TimestampField(10, NatToVal(2), <<>>, FALSE)
PayloadN == FieldFixed64

RECURSIVE SeqsUpTo(_, _)
SeqsUpTo(S, n) ==
    IF n = 0 THEN { <<>> }
    ELSE LET shorter == SeqsUpTo(S, n - 1)
         IN  shorter \cup { Append(q, x) : q \in shorter, x \in S }

AnalyzeFrames ==
    SeqsUpTo({ PayloadA, PayloadB, PayloadN }, MaxFrames)
        \cup { <<PayloadA, PayloadC>>, <<PayloadC, PayloadA>>,
               <<PayloadA, PayloadN, PayloadC>> }

\* what follows the well-formed frames
TailNone == <<>>
TailOversized == <<1, 0, 0, 64, 1, 2>>
TailTruncatedPayload == <<8, 0, 0, 0, 1, 2, 3>>
TailTruncatedPrefix == <<8, 0>>
TailEmptyFrame == <<0, 0, 0, 0>> \o BinFrame(PayloadC)

AnalyzeTails ==
    { TailNone, TailOversized, TailTruncatedPayload, TailTruncatedPrefix,
      TailEmptyFrame }

RECURSIVE FramesBytes(_)
FramesBytes(frames) ==
    IF frames = <<>> THEN <<>>
    ELSE BinFrame(Head(frames)) \o FramesBytes(Tail(frames))

AnalyzeInputs ==
    [path : { PathGt }, frames : AnalyzeFrames, tail : AnalyzeTails,
     sample_size : 0..(MaxFrames + 1)]
        \cup [path : { PathMissing, PathBin, PathLocked },
              frames : { <<PayloadA, PayloadB>> }, tail : { TailNone },
              sample_size : { 0 }]

AnalyzeAct ==
    /\ codec = "analyze"
    /\ last = NoCall
    /\ fout' = Analyze(fin.path, fin.sample_size)
    /\ last' = Call("OsiFileAnalyzer::Analyze",
                    IF fout'.has THEN "value" ELSE "nullopt")
    /\ UNCHANGED <<codec, phase, fs, br, bw, tr, tw, mr, mw, fin>>

InitAnalyze ==
    /\ codec = "analyze"
    /\ fin \in AnalyzeInputs
    /\ fs = [InitialFs(PathGt, FramesBytes(fin.frames) \o fin.tail)
                EXCEPT ![PathBin].data = FramesBytes(fin.frames)]
    /\ Constructed
    /\ fout = NoVal

NextAnalyze == AnalyzeAct

SpecAnalyze == InitAnalyze /\ [][NextAnalyze]_vars

\* Analyze has returned, for the file at PathGt
Analyzed == codec = "analyze" /\ last # NoCall /\ fin.path = PathGt

\* number of well-formed frames of the input
N == Len(fin.frames)

\* C12: Analyze returns no statistics when a length prefix exceeds the
\* ceiling or a prefix or a payload cannot be read completely, also when
\* well-formed frames precede that frame.
C12_CorruptFrameFailsAnalysis ==
    (Analyzed /\ fin.tail \in { TailOversized, TailTruncatedPayload,
                                TailTruncatedPrefix })
    => ~fout.has

\* the file holds well-formed frames only, at least one
WellFormedFile == Analyzed /\ fin.tail = TailNone /\ N > 0

\* 0 .. n - 1 in order
Indices(n) == [j \in 1..n |-> j - 1]

StampNs(payload) ==
    IF payload = PayloadA THEN 1000000000
    ELSE IF payload = PayloadB THEN 1500000000
    ELSE IF payload = PayloadC THEN 2000000000
    ELSE -1

\* the timestamps of the frames whose payload has been read, in file order
SampledStamps ==
    LET all == [j \in 1..Len(fout.payloads_read) |->
                   StampNs(fin.frames[fout.payloads_read[j] + 1])]
    IN  SelectSeq(all, LAMBDA x : x >= 0)

\* C18: statistics returned by Analyze carry a positive finite frame rate:
\* 100 Hz, with interval 1/100 and byte rate avg_message_size * 100, when
\* no positive duration can be derived (one frame, no timestamp, last <
\* first, last = first); otherwise (N - 1) / duration, with byte rate
\* total_message_bytes / duration.
C18_FrameRate ==
    (Analyzed /\ fout.has) =>
        LET st == fout.stats
            stamps == SampledStamps
            first == stamps[1]
            final == stamps[Len(stamps)]
            derivable == /\ stamps # <<>>
                         /\ final > first
                         /\ st.message_count > 1
            duration == Rat(final - first, 1000000000)
        IN  /\ RatPositive(st.frame_rate_hz)
            /\ RatFinite(st.frame_rate_hz)
            /\ derivable =>
                /\ st.frame_rate_hz
                       = RatDiv(Rat(st.message_count - 1, 1), duration)
                /\ st.bytes_per_second
                       = RatDiv(Rat(st.total_message_bytes, 1), duration)
            /\ ~derivable =>
                /\ st.frame_rate_hz = Rat(100, 1)
                /\ st.avg_frame_interval_seconds = Rat(1, 100)
                /\ st.bytes_per_second = RatMul(st.avg_message_size, Rat(100, 1))

\* C18 witness: three frames spanning one second have given 2 Hz.
C18_Witness ==
    /\ Analyzed
    /\ fin.frames = <<PayloadA, PayloadN, PayloadC>>
    /\ fin.tail = TailNone
    /\ fin.sample_size = 0
    /\ fout.has
    /\ fout.stats.frame_rate_hz = Rat(2, 1)
    /\ fout.stats.bytes_per_second = Rat(fout.stats.total_message_bytes, 1)

(***************************************************************************)
(* OsiFileAnalyzer::RecommendMcapOptions (OsiFileAnalyzer.cpp), on finite  *)
(* doubles.                                                                *)
(***************************************************************************)
kMinChunkSize == 1048576
kMaxChunkSize == 33554432
kMinMessageSizeForCompression == 1024

\* kMinChunkDurationSeconds = 0.5 and kMaxChunkDurationSeconds = 5.0
kMinChunkDurationSeconds == [n |-> 1, d |-> 2]
kMaxChunkDurationSeconds == [n |-> 5, d |-> 1]

\* std::clamp(v, lo, hi)
Clamp(v, lo, hi) == IF v < lo THEN lo ELSE IF hi < v THEN hi ELSE v

RatClamp(v, lo, hi) ==
    IF RatLess(v, lo) THEN lo ELSE IF RatLess(hi, v) THEN hi ELSE v

\* stands for every uint64_t above the chunk sizes
HugeU64 == kMaxChunkSize + 1

\* static_cast<uint64_t>(x): the values the conversion can give.  The
\* fraction is discarded; when the truncated value is negative the
\* behaviour is undefined, and builds give 0 (a saturating conversion) or a
\* value near 2^64 (a signed conversion reinterpreted).
DoubleToU64(x) ==
    IF x.n >= 0 THEN { x.n \div x.d }
    ELSE IF -x.n < x.d THEN { 0 }
    ELSE { 0, HugeU64 }

\* RecommendMcapOptions(stats, target_chunk_duration_seconds): the set of
\* results; clamped is the note of the chunk size rationale
RecommendMcapOptions(stats, target_chunk_duration_seconds) ==
    LET target == RatClamp(target_chunk_duration_seconds,
                           kMinChunkDurationSeconds, kMaxChunkDurationSeconds)
        messages_per_chunk == RatMul(stats.frame_rate_hz, target)
        product == RatMul(stats.avg_message_size, messages_per_chunk)
    IN  { [target_chunk_duration_seconds |-> target,
           calculated_chunk_size |-> calculated_chunk_size,
           chunk_size |-> Clamp(calculated_chunk_size,
                                kMinChunkSize, kMaxChunkSize),
           clamped |->
               IF Clamp(calculated_chunk_size, kMinChunkSize, kMaxChunkSize)
                      # calculated_chunk_size
               THEN IF Clamp(calculated_chunk_size, kMinChunkSize,
                             kMaxChunkSize) = kMinChunkSize
                    THEN "min" ELSE "max"
               ELSE "none",
           compression |->
               IF RatLess(stats.avg_message_size,
                          Rat(kMinMessageSizeForCompression, 1))
               THEN "None" ELSE "Zstd"] :
          calculated_chunk_size \in DoubleToU64(product) }

\* statistics and target durations handed to RecommendMcapOptions
RecommendSizes ==
    { Rat(0, 1), Rat(1, 2), Rat(1023, 1), Rat(1024, 1), Rat(2621439, 250),
      Rat(10486, 1), Rat(1048575, 1), Rat(1048576, 1), Rat(33554432, 1),
      Rat(33554433, 1), Rat(-1024, 1) }

RecommendRates == { Rat(0, 1), Rat(1, 1), Rat(100, 1), Rat(-100, 1) }

RecommendTargets ==
    { Rat(-1, 1), Rat(1, 10), Rat(1, 2), Rat(1, 1), Rat(5, 1), Rat(10, 1) }

RecommendInputs ==
    { in \in [avg_message_size : RecommendSizes,
              frame_rate_hz : RecommendRates,
              target : RecommendTargets] :
        in.frame_rate_hz.n \in { 0, 1 }
            \/ (in.avg_message_size.n < 2000000
                    /\ in.avg_message_size.n > -2000000) }

RecommendMcapOptionsAct ==
    /\ codec = "recommend"
    /\ last = NoCall
    /\ \E o \in RecommendMcapOptions(fin, fin.target) : fout' = o
    /\ last' = Call("OsiFileAnalyzer::RecommendMcapOptions", "value")
    /\ UNCHANGED <<codec, phase, fs, br, bw, tr, tw, mr, mw, fin>>

InitRecommend ==
    /\ codec = "recommend"
    /\ fs = InitialFs(PathGt, <<>>)
    /\ Constructed
    /\ fin \in RecommendInputs
    /\ fout = NoVal

NextRecommend == RecommendMcapOptionsAct

SpecRecommend == InitRecommend /\ [][NextRecommend]_vars

\* floor(avg_message_size * frame_rate_hz * target) for the target t
RawChunkSize(t) ==
    LET x == RatMul(fin.avg_message_size, RatMul(fin.frame_rate_hz, t))
    IN  x.n \div x.d

\* what the claim states of the result for the clamped target t
RecommendationAsStated(t) ==
    /\ fout.target_chunk_duration_seconds = t
    /\ ~RatLess(t, Rat(1, 2)) /\ ~RatLess(Rat(5, 1), t)
    /\ fout.chunk_size = Clamp(RawChunkSize(t), 1048576, 33554432)
    /\ fout.clamped = "min" <=> RawChunkSize(t) < 1048576
    /\ fout.clamped = "max" <=> RawChunkSize(t) > 33554432

\* C17: for any statistics and any target duration, the target is clamped
\* to [0.5, 5.0], chunk_size is floor(avg_message_size * frame_rate_hz *
\* target) clamped to [1 MiB, 32 MiB], and the rationale says 'clamped to
\* min' exactly when the raw value is below 1 MiB, 'clamped to max' exactly
\* when it is above 32 MiB.
C17_ChunkSizeClamped ==
    (codec = "recommend" /\ last # NoCall) =>
        RecommendationAsStated(
            RatClamp(fin.target, Rat(1, 2), Rat(5, 1)))

\* the same for statistics without a negative value
RecommendNonNegative ==
    (codec = "recommend" /\ last # NoCall
        /\ fin.avg_message_size.n >= 0 /\ fin.frame_rate_hz.n >= 0) =>
        RecommendationAsStated(
            RatClamp(fin.target, Rat(1, 2), Rat(5, 1)))

(***************************************************************************)
(* Re-use of an instance after Close                                       *)
(***************************************************************************)
\* an existing readable file with the extension ext whose name gives a kind
ValidTraceFile(ext, p) ==
    /\ Extension(p) = ext
    /\ fs[p].exists /\ fs[p].readable
    /\ kUnknown \notin FilenameKinds(p)

\* the stream s is at the first element of the file at p, no flag set
AtStart(s, p) == s.is_open /\ s.path = p /\ s.pos = 0 /\ StreamGood(s)

\* the reader outcome o is a successful Open of p that stands before the
\* first message
ReopenedAtStart(o, p) ==
    /\ o.ret
    /\ fs[p].data # <<>> =>
        /\ AtStart(o.r.trace_file_, p)
        /\ ReaderHasNext(o.r.trace_file_).ret

\* C21: in every state, Close followed by Open of an existing valid file
\* succeeds on the same reader or writer, and the reader then stands before
\* the first message of the file (HasNext is true when the file is not
\* empty), wherever the session before had stopped reading.
C21_ReopenAfterClose ==
    /\ (codec = "bin" /\ phase = "read") =>
        \A p \in BinReaderOpenPaths : ValidTraceFile(ExtOsi, p) =>
            \A o \in BinReaderOpen(BinReaderClose(br), p) :
                ReopenedAtStart(o, p)
    /\ (codec = "txth" /\ phase = "read") =>
        \A p \in TxthReaderOpenPaths : ValidTraceFile(ExtTxth, p) =>
            \A o \in TxthReaderOpen(TxthReaderClose(tr), p) :
                ReopenedAtStart(o, p)
    /\ (codec = "mcap" /\ phase = "read") =>
        \A p \in McapReaderOpenPaths :
            (fs[p].exists /\ fs[p].readable /\ McapReaderLibOpen(fs[p].data)) =>
                LET o == McapReaderOpen(McapReaderClose(mr), p)
                    view == McapMessageView(fs[p].data, mr.mcap_options_)
                IN  /\ o.ret
                    /\ o.r.message_view_ = view
                    /\ o.r.message_iterator_ = 1
                    /\ McapReaderHasNext(o.r) <=> view # <<>>
    /\ (codec = "bin" /\ phase = "write") =>
        \A p \in BinWriterOpenPaths : (Extension(p) = ExtOsi /\ Creatable(p)) =>
            LET o == BinWriterOpen(WriterClose(bw), p)
            IN  o.ret /\ o.w.trace_file_.is_open /\ o.w.trace_file_.path = p
    /\ (codec = "txth" /\ phase = "write") =>
        \A p \in TxthWriterOpenPaths : (Extension(p) = ExtTxth /\ Creatable(p)) =>
            LET o == TxthWriterOpen(WriterClose(tw), p)
            IN  o.ret /\ o.w.trace_file_.is_open /\ o.w.trace_file_.path = p
    /\ (codec = "mcap" /\ phase = "write") =>
        \A p \in McapWriterOpenPaths : Creatable(p) =>
            \A c \in McapWriterClose(mw) :
                LET o == McapWriterOpen(c.w, p)
                IN  /\ o.ret
                    /\ o.w.trace_file_.is_open /\ o.w.trace_file_.path = p
                    /\ o.w.mcap_writer_.opened

\* C21 witness: a binary reader that had read its file to the end has been
\* closed, and Open of the same file puts it before the first message.
C21_Witness ==
    /\ codec = "bin" /\ phase = "read"
    /\ last = Call("BinReader::Close", "void")
    /\ ~br.trace_file_.is_open
    /\ br.trace_file_.eofbit
    /\ fs[PathGt].data # <<>>
    /\ \E o \in BinReaderOpen(br, PathGt) :
        /\ o.ret
        /\ AtStart(o.r.trace_file_, PathGt)
        /\ ReaderHasNext(o.r.trace_file_).ret

(***************************************************************************)
(* MCAPTraceFileWriter::AddFileMetadata                                    *)
(***************************************************************************)
\* C22: AddFileMetadata returns true for a net.asam.osi.trace record only
\* when the record holds the five required fields and no such record was
\* accepted on the writer before; a call that returns false writes no
\* record; a record of another name is accepted by an open writer whatever
\* has been accepted before.
C22_AddFileMetadata ==
    (codec = "mcap" /\ phase = "write") =>
        \A metadata \in MetadataInputs \cup { OtherMetadata } :
            LET o == McapWriterAddFileMetadata(mw, metadata)
            IN  /\ (metadata.name = RequiredMetadataName /\ o.ret) =>
                    /\ kRequiredFields \subseteq metadata.fields
                    /\ fout # "accepted"
                /\ ~o.ret => o.appended = <<>>
                /\ o.ret => o.appended = <<McapMetadata(metadata.name)>>
                /\ (metadata.name # RequiredMetadataName
                        /\ mw.mcap_writer_.opened) => o.ret

\* C22 witness: the required record has been accepted and written, a record
\* of another name twice, and the required record is refused now.
C22_Witness ==
    /\ codec = "mcap" /\ phase = "write"
    /\ fout = "accepted"
    /\ mw.mcap_writer_.opened
    /\ fs[PathMcap].data
           = <<McapHeader, McapMetadata(OtherMetadataName),
               McapMetadata(RequiredMetadataName),
               McapMetadata(OtherMetadataName)>>
    /\ ~McapWriterAddFileMetadata(mw, PrepareRequiredFileMetadata).ret
    /\ McapWriterAddFileMetadata(mw, OtherMetadata).ret

(***************************************************************************)
(* WriteMessage on a writer that cannot write                              *)
(***************************************************************************)
\* the write outcome o is a refusal that appends nothing
Refused(o) == ~o.ret /\ o.appended = <<>>

\* C23: WriteMessage returns false and appends nothing when the writer has
\* no file open (never opened, or closed), for the binary, the text and the
\* MCAP writer; the MCAP writer does the same for the empty topic and for a
\* topic not registered with AddChannel.
C23_WriteRefused ==
    /\ (codec = "bin" /\ phase = "write" /\ ~bw.trace_file_.is_open) =>
        \A m \in WriteMsgs : Refused(BinWriterWriteMessage(bw, m))
    /\ (codec = "txth" /\ phase = "write" /\ ~tw.trace_file_.is_open) =>
        \A m \in WriteMsgs : Refused(TxthWriterWriteMessage(tw, m))
    /\ (codec = "mcap" /\ phase = "write") =>
        \A m \in WriteMsgs :
            /\ Refused(McapWriterWriteMessage(mw, m, ""))
            /\ \A topic \in Topics :
                (~mw.trace_file_.is_open \/ mw.topic_to_channel_id_[topic] = 0)
                    => Refused(McapWriterWriteMessage(mw, m, topic))

\* C23 witness: an open MCAP writer holding the required metadata and a
\* channel for topic a has refused a message, and its file holds none.
C23_Witness ==
    /\ codec = "mcap" /\ phase = "write"
    /\ last = Call("McapWriter::WriteMessage", "false")
    /\ mw.trace_file_.is_open
    /\ mw.required_metadata_added_
    /\ mw.topic_to_channel_id_["a"] # 0
    /\ mw.topic_to_channel_id_["b"] = 0
    /\ fs[PathMcap].data = <<McapHeader, McapMetadata(RequiredMetadataName)>>
    /\ McapWriterWriteMessage(mw, MsgHvd, "a").ret

(***************************************************************************)
(* Event time of the messages the MCAP writer stores                       *)
(***************************************************************************)
\* quotient and remainder of the digit sequence v by k, from digit i down
RECURSIVE DivDigits(_, _, _, _)
DivDigits(v, k, i, rem) ==
    IF i = 0 THEN [q |-> <<>>, r |-> rem]
    ELSE LET cur == rem * 128 + v[i]
             rest == DivDigits(v, k, i - 1, cur % k)
         IN  [q |-> Append(rest.q, cur \div k), r |-> rest.r]

\* decimal digits of a value given by its base-128 digits, first digit first
RECURSIVE DecimalOfVal(_)
DecimalOfVal(v) ==
    LET sv == StripZeros(v)
        d == DivDigits(sv, 10, Len(sv), 0)
    IN  IF sv = <<>> THEN <<>> ELSE Append(DecimalOfVal(d.q), d.r)

RECURSIVE DecimalOfNat(_)
DecimalOfNat(n) ==
    IF n = 0 THEN <<>> ELSE Append(DecimalOfNat(n \div 10), n % 10)

\* decimal digits of seconds * 10^9 + nanos, for 0 <= nanos < 10^9
DecimalNs(seconds, nanos) ==
    IF seconds = 0 THEN DecimalOfNat(nanos)
    ELSE DecimalOfNat(seconds)
             \o [i \in 1..9 |-> (nanos \div 10 ^ (9 - i)) % 10]

\* timestamps on which the conversion is evaluated
LogTimeSeconds == { 0, 1, 200, 2147483647 }
LogTimeNanos == { 0, 1, 999999999 }

\* the message records of the file at p
MessageRecords(p) == SelectSeq(fs[p].data, LAMBDA x : x.rec = "message")

\* C24: every message the MCAP writer has written stands in its file with
\* logTime = publishTime = seconds * 10^9 + nanos of the message's
\* timestamp; the conversion, evaluated before the first call, gives that
\* value for every timestamp with seconds >= 0 and 0 <= nanos < 10^9.
C24_LogTime ==
    /\ (codec = "mcap" /\ fs[PathMcap].written # <<>>) =>
        LET msgs == MessageRecords(PathMcap)
            written == fs[PathMcap].written
        IN  /\ Len(msgs) = Len(written)
            /\ \A i \in 1..Len(msgs) :
                /\ DecimalOfVal(msgs[i].logTime)
                       = DecimalNs(written[i].ts.seconds, written[i].ts.nanos)
                /\ msgs[i].publishTime = msgs[i].logTime
    /\ last = NoCall =>
        \A seconds \in LogTimeSeconds, nanos \in LogTimeNanos :
            DecimalOfVal(LogTime(seconds, nanos)) = DecimalNs(seconds, nanos)

\* C24 witness: a message stamped 200 s + 999999999 ns has been written and
\* stands in the file with logTime 200999999999.
C24_Witness ==
    /\ codec = "mcap"
    /\ last = Call("McapWriter::WriteMessage", "true")
    /\ fs[PathMcap].written = <<MsgHvd>>
    /\ Len(MessageRecords(PathMcap)) = 1
    /\ MessageRecords(PathMcap)[1].logTime = <<127, 51, 34, 100, 108, 5>>
    /\ MessageRecords(PathMcap)[1].publishTime = <<127, 51, 34, 100, 108, 5>>
    /\ DecimalOfVal(MessageRecords(PathMcap)[1].logTime)
           = <<2, 0, 0, 9, 9, 9, 9, 9, 9, 9, 9, 9>>

(***************************************************************************)
(* Open and HasNext report through their result                            *)
(***************************************************************************)
\* the kinds kParserMap_.at accepts
ParserMapKeys == ReaderTopLevelMessage \ { kUnknown }

\* no kind is known for Open(p) on a reader holding message_type
Unresolvable(message_type, p) ==
    message_type = kUnknown /\ FilenameKinds(p) = { kUnknown }

\* the outcome o of Open(p) on a binary or text reader r is a boolean, false
\* in the cases ext, missing file, no kind and open instance, and the
\* parser lookup done on the way to true is of a key of kParserMap_
StreamOpenReports(o, r, p, ext) ==
    /\ o.ret \in BOOLEAN
    /\ (r.trace_file_.is_open \/ Extension(p) # ext \/ ~fs[p].exists
            \/ Unresolvable(r.message_type_, p)) => ~o.ret
    /\ o.ret => o.r.parser_ \in ParserMapKeys

WriterOpenReports(o, w, p, ext) ==
    /\ o.ret \in BOOLEAN
    /\ (w.trace_file_.is_open \/ Extension(p) # ext \/ ~Creatable(p)) => ~o.ret

\* a content the container library opens: header first, footer last
IsContainer(data) ==
    /\ Len(data) >= 2
    /\ data[1] = McapHeader
    /\ data[Len(data)] = McapFooter

\* the calls of Open and HasNext
OpenAndHasNextCalls ==
    { "BinReader::Open", "BinReader::OpenKind", "BinReader::HasNext",
      "TxthReader::Open", "TxthReader::OpenKind", "TxthReader::HasNext",
      "McapReader::Open", "McapReader::OpenOptions", "McapReader::HasNext",
      "BinWriter::Open", "TxthWriter::Open", "McapWriter::Open",
      "McapWriter::OpenOptions" }

OnlyNonOsiRemain(r) ==
    \A i \in r.message_iterator_..Len(r.message_view_) :
        NonOsi(r.message_view_[i])

\* C26: with skipping of non-OSI messages enabled, when HasNext() is true
\* and only non-OSI messages remain, ReadMessage() passes all of them and
\* returns an empty result without raising, and HasNext() is false
\* afterwards.
C26_SkipTail ==
    (codec = "mcap" /\ phase = "read" /\ mr.skip_non_osi_msgs_
        /\ McapReaderHasNext(mr) /\ OnlyNonOsiRemain(mr)) =>
        LET o == McapReaderReadMessage(mr)
        IN  /\ o.ret = "nullopt"
            /\ o.r.message_iterator_ = Len(mr.message_view_) + 1
            /\ ~McapReaderHasNext(o.r)

\* C26 witness: ReadMessage() has returned an empty result on a reader that
\* skips, whose file ends with two non-OSI messages, and stands behind them.
C26_Witness ==
    /\ codec = "mcap" /\ phase = "read"
    /\ last = Call("McapReader::ReadMessage", "nullopt")
    /\ mr.skip_non_osi_msgs_
    /\ mr.has_view_
    /\ Len(mr.message_view_) = 3
    /\ NonOsi(mr.message_view_[2]) /\ NonOsi(mr.message_view_[3])
    /\ mr.message_iterator_ = 4
    /\ ~McapReaderHasNext(mr)

(***************************************************************************)
(* Options of the single-argument Open of the MCAP reader and writer       *)
(***************************************************************************)
\* C27: a successful Open(path) of the MCAP reader iterates the messages
\* the default options select, and a successful Open(path) of the MCAP
\* writer opens the library writer with the default options, whatever call
\* of Open(path, options) was made on the instance before.
C27_OpenWithDefaultOptions ==
    /\ (codec = "mcap" /\ last = Call("McapReader::Open", "true")) =>
        mr.message_view_
            = McapMessageView(fs[mr.trace_file_.path].data, DefaultReadOptions)
    /\ (codec = "mcap" /\ last = Call("McapWriter::Open", "true")) =>
        mw.mcap_writer_.options = <<DefaultWriterOptions>>

\* the same for an instance on which Open(path, options) was never called
\* with other options than the default ones
OpenWithDefaultOptionsUnlessSet ==
    /\ (codec = "mcap" /\ last = Call("McapReader::Open", "true")
            /\ mr.mcap_options_ = DefaultReadOptions) =>
        mr.message_view_
            = McapMessageView(fs[mr.trace_file_.path].data, DefaultReadOptions)
    /\ (codec = "mcap" /\ last = Call("McapWriter::Open", "true")
            /\ mw.mcap_options_ = DefaultWriterOptions) =>
        mw.mcap_writer_.options = <<DefaultWriterOptions>>

(***************************************************************************)
(* Kind resolved by Open(path) on a reader used before                     *)
(***************************************************************************)
\* what a set of Open outcomes shows: the result and the kind resolved
Resolutions(outcomes) ==
    { [ret |-> o.ret,
       kind |-> IF o.ret THEN o.r.message_type_ ELSE kUnknown] : o \in outcomes }

\* C28: on a binary or text reader that has no file open, Open(path) gives
\* the result and the kind it gives on a freshly constructed reader,
\* whatever calls were made on the reader before.
C28_OpenAsFresh ==
    /\ (codec = "bin" /\ phase = "read" /\ ~br.trace_file_.is_open) =>
        \A p \in BinReaderOpenPaths :
            Resolutions(BinReaderOpen(br, p))
                = Resolutions(BinReaderOpen(BinReaderInit, p))
    /\ (codec = "txth" /\ phase = "read" /\ ~tr.trace_file_.is_open) =>
        \A p \in TxthReaderOpenPaths :
            Resolutions(TxthReaderOpen(tr, p))
                = Resolutions(TxthReaderOpen(TxthReaderInit, p))

\* the same for a reader that holds no kind
OpenAsFreshWithoutKind ==
    /\ (codec = "bin" /\ phase = "read" /\ ~br.trace_file_.is_open
            /\ br.message_type_ = kUnknown) =>
        \A p \in BinReaderOpenPaths :
            Resolutions(BinReaderOpen(br, p))
                = Resolutions(BinReaderOpen(BinReaderInit, p))
    /\ (codec = "txth" /\ phase = "read" /\ ~tr.trace_file_.is_open
            /\ tr.message_type_ = kUnknown) =>
        \A p \in TxthReaderOpenPaths :
            Resolutions(TxthReaderOpen(tr, p))
                = Resolutions(TxthReaderOpen(TxthReaderInit, p))

(***************************************************************************)
(* Binding of kind and parser while a file is open                         *)
(***************************************************************************)
\* SingleChannelBinaryTraceFileReader::GetMessageType()
GetMessageType(r) == r.message_type_

\* a ReadMessage outcome that carries a message reports the kind of the
\* parser that decoded it
ReportsParserKind(o) ==
    o.ret = "value" => o.val.message_type = o.val.message.kind

\* C29: while a binary or text reader has a file open, whatever calls were
\* made since the successful Open, the kind reported by GetMessageType()
\* and in each ReadResult is the kind of the parser bound by that Open.
C29_KindBinding ==
    /\ (codec = "bin" /\ phase = "read" /\ br.trace_file_.is_open) =>
        /\ GetMessageType(br) = br.parser_
        /\ ReportsParserKind(BinReaderReadMessage(br))
    /\ (codec = "txth" /\ phase = "read" /\ tr.trace_file_.is_open) =>
        /\ tr.message_type_ = tr.parser_
        /\ ReportsParserKind(TxthReaderReadMessage(tr))

\* the same after a successful Open that no Open(path, kind) has followed
KindBindingAfterOpen ==
    /\ (codec = "bin" /\ last.op \in { "BinReader::Open", "BinReader::OpenKind" }
            /\ last.ret = "true") =>
        /\ GetMessageType(br) = br.parser_
        /\ ReportsParserKind(BinReaderReadMessage(br))
    /\ (codec = "txth"
            /\ last.op \in { "TxthReader::Open", "TxthReader::OpenKind" }
            /\ last.ret = "true") =>
        /\ tr.message_type_ = tr.parser_
        /\ ReportsParserKind(TxthReaderReadMessage(tr))

(***************************************************************************)
(* Progress of the read loop                                               *)
(***************************************************************************)
\* the ReadMessage outcome o on a stream reader r has not raised and has
\* left the read position where it was or before
StreamReadStalls(o, r) ==
    o.ret # "raise" /\ o.r.trace_file_.pos <= r.trace_file_.pos

\* C30: for every reader and every file content, a ReadMessage() call made
\* while HasNext() is true either raises or moves the read cursor strictly
\* forward, so that the loop `while (HasNext()) ReadMessage()` ends.
C30_ReadAdvances ==
    /\ (codec = "bin" /\ phase = "read" /\ ReaderHasNext(br.trace_file_).ret)
        => ~StreamReadStalls(BinReaderReadMessage(br), br)
    /\ (codec = "txth" /\ phase = "read" /\ ReaderHasNext(tr.trace_file_).ret)
        => ~StreamReadStalls(TxthReaderReadMessage(tr), tr)
    /\ (codec = "mcap" /\ phase = "read" /\ McapReaderHasNext(mr)) =>
        LET o == McapReaderReadMessage(mr)
        IN  o.ret # "raise" => o.r.message_iterator_ > mr.message_iterator_

\* the same for the binary and the MCAP reader, and for the text reader on
\* a file whose first line is not empty
ReadAdvancesUnlessEmptyFirstLine ==
    /\ (codec = "bin" /\ phase = "read" /\ ReaderHasNext(br.trace_file_).ret)
        => ~StreamReadStalls(BinReaderReadMessage(br), br)
    /\ (codec = "txth" /\ phase = "read" /\ ReaderHasNext(tr.trace_file_).ret
            /\ tr.line_indicating_msg_start_ # <<>>)
        => ~StreamReadStalls(TxthReaderReadMessage(tr), tr)
    /\ (codec = "mcap" /\ phase = "read" /\ McapReaderHasNext(mr)) =>
        LET o == McapReaderReadMessage(mr)
        IN  o.ret # "raise" => o.r.message_iterator_ > mr.message_iterator_

(***************************************************************************)
(* Framing of the text reader                                              *)
(***************************************************************************)
\* the line of d that starts at offset pos, without its newline
LineAt(d, pos) ==
    LET j == FindNL(d, pos)
    IN  SubSeq(d, pos + 1, IF j = 0 THEN Len(d) ELSE j - 1)

\* the offsets at which a line of d starts
LineStarts(d) == {0} \cup { j \in 1..(Len(d) - 1) : d[j] = NL }

\* the offsets of the lines equal to the first line of d
RecordStarts(d) == { s \in LineStarts(d) : LineAt(d, s) = LineAt(d, 0) }

\* d is a concatenation of records of newline-terminated lines, each
\* starting with the non-empty first line of d
TextFramed(d) == Len(d) > 0 /\ d[Len(d)] = NL /\ LineAt(d, 0) # <<>>

\* the text of the record of d that starts at offset s
RecordAt(d, s) ==
    LET later == { t \in RecordStarts(d) : t > s }
        end == IF later = {} THEN Len(d)
               ELSE CHOOSE t \in later : \A u \in later : t <= u
    IN  SubSeq(d, s + 1, end)

\* successive ReadMessage calls of reader r hand over the records of d that
\* start at the offsets todo, in file order, and HasNext() is false then
RECURSIVE ReadsRecords(_, _, _)
ReadsRecords(r, d, todo) ==
    IF todo = {} THEN ~ReaderHasNext(r.trace_file_).ret
    ELSE LET s == CHOOSE t \in todo : \A u \in todo : t <= u
             h == ReaderHasNext(r.trace_file_)
             f == TxthReadNextMessageFromFile([r EXCEPT !.trace_file_ = h.s])
             o == TxthReaderReadMessage(r)
         IN  /\ h.ret
             /\ o.ret # "nullopt"
             /\ f.message = RecordAt(d, s)
             /\ ReadsRecords(o.r, d, todo \ {s})

\* C31: when a .txth file is a concatenation of N >= 1 records of
\* newline-terminated lines, each starting with the non-empty first line of
\* the file and holding it nowhere else, N successive ReadMessage calls of a
\* reader opened on it hand to the parser the text of each record in file
\* order, and HasNext() is false after the N-th call.
C31_TextFraming ==
    \A p \in TxthPaths :
        \A o \in TxthReaderOpenKind(TxthReaderInit, p, "kGroundTruth") :
            (o.ret /\ TextFramed(fs[p].data))
                => ReadsRecords(o.r, fs[p].data, RecordStarts(fs[p].data))

\* the reader has read a framed file of two records or more to its end
C31_Witness ==
    /\ codec = "txth"
    /\ last.op = "TxthReader::ReadMessage"
    /\ last.ret # "nullopt"
    /\ tr.trace_file_.is_open
    /\ TextFramed(StreamData(tr.trace_file_))
    /\ Cardinality(RecordStarts(StreamData(tr.trace_file_))) >= 2
    /\ tr.trace_file_.pos = Len(StreamData(tr.trace_file_))
    /\ ~ReaderHasNext(tr.trace_file_).ret

(***************************************************************************)
(* Kind resolution of the text reader against the binary reader            *)
(***************************************************************************)
\* file names without their extension
Stems == { <<"a", "_", "g", "t", "_">>, <<"a">>,
           <<"a", "_", "g", "t", "_", "h", "v", "d", "_">> }

\* what a set of Open outcomes shows: the result and the kind the reader holds
Outcomes(outcomes) ==
    { [ret |-> o.ret, kind |-> o.r.message_type_] : o \in outcomes }

\* Open(path) and Open(path, explicit) of both readers on the files named
\* stem, on instances configured with the kind configured
SameResolution(stem, configured, explicit) ==
    LET b == [BinReaderInit EXCEPT !.message_type_ = configured]
        t == [TxthReaderInit EXCEPT !.message_type_ = configured]
    IN  /\ Outcomes(BinReaderOpen(b, stem \o ExtOsi))
               = Outcomes(TxthReaderOpen(t, stem \o ExtTxth))
        /\ Outcomes(BinReaderOpenKind(b, stem \o ExtOsi, explicit))
               = Outcomes(TxthReaderOpenKind(t, stem \o ExtTxth, explicit))

\* C32: for every file name, every explicit kind argument, none included,
\* and every kind configured on the instance before, Open on an existing
\* file with the required extension succeeds in the text reader exactly when
\* it succeeds in the binary reader, and both resolve the same kind.  Every
\* combination is compared before the first call, and afterwards the kind
\* that the reader in use holds.
C32_SameKindResolution ==
    /\ last = NoCall =>
           \A stem \in Stems :
               (exists(stem \o ExtOsi) /\ exists(stem \o ExtTxth)) =>
                   \A configured \in ReaderTopLevelMessage :
                       \A explicit \in ReaderTopLevelMessage :
                           SameResolution(stem, configured, explicit)
    /\ (last # NoCall /\ codec \in { "bin", "txth" }) =>
           SameResolution(<<"a", "_", "g", "t", "_">>,
                          IF codec = "bin" THEN br.message_type_
                          ELSE tr.message_type_, kUnknown)

\* the text reader, configured with a kind the file name does not suggest,
\* has opened a_gt_.txth by name, and the binary reader does the same
C32_Witness ==
    /\ codec = "txth"
    /\ last = Call("TxthReader::Open", "true")
    /\ tr.trace_file_.is_open
    /\ tr.trace_file_.path = PathTxthGt
    /\ tr.message_type_ = "kHostVehicleData"
    /\ [ret |-> TRUE, kind |-> "kHostVehicleData"] \in
           Outcomes(BinReaderOpen(
               [BinReaderInit EXCEPT !.message_type_ = "kHostVehicleData"], PathGt))
    /\ SameResolution(<<"a", "_", "g", "t", "_">>, "kHostVehicleData", kUnknown)

(***************************************************************************)
(* ExtractTimestampNanoseconds iteration by iteration: fout holds the      *)
(* position of the call.  ret is "idle" before the call, "running" in the  *)
(* loops and "nullopt" or "value" after the return; pos is the index of    *)
(* the top-level cursor; in_sub tells that parse_timestamp_submessage is   *)
(* running, with its cursor, its end and its locals acc, and next is the   *)
(* index at which the top-level loop goes on after it.  reads are the      *)
(* indices dereferenced by the last iteration and limit is the bound of    *)
(* the loop that made it, and odd tells that the number of iterations made *)
(* so far is odd (history, not read by any operation).                     *)
(***************************************************************************)
WalkIdle ==
    [ret |-> "idle", pos |-> 1, in_sub |-> FALSE, cursor |-> 1, end |-> 0,
     next |-> 1, acc |-> NoTimestampFields, ns |-> <<>>, reads |-> {},
     limit |-> 0, odd |-> FALSE]

\* 2^64 - n for 1 <= n <= 118, as the ten groups of a varint value
TwoTo64Minus(n) == <<128 - n, 127, 127, 127, 127, 127, 127, 127, 127, 1>>

\* a field 3 whose declared length is 2^64 - 11: the cursor wraps to 0
WrapToStart == <<3 * 8 + WireLengthDelimited>> \o VarintOfVal(TwoTo64Minus(11))

\* a field 2 whose declared length is 2^64 - 11
WrapCandidate == <<2 * 8 + WireLengthDelimited>> \o VarintOfVal(TwoTo64Minus(11))

\* a field 3 whose declared length is 2^64 - 1: the cursor moves back by one
WrapByOne == <<3 * 8 + WireLengthDelimited>> \o VarintOfVal(TwoTo64Minus(1))

\* a field 2 of 11 bytes that holds a field 3 of declared length 2^64 - n
WrapInside(n) ==
    <<2 * 8 + WireLengthDelimited, 11, 3 * 8 + WireLengthDelimited>>
        \o VarintOfVal(TwoTo64Minus(n))

\* fields that end after the buffer, wire types that do not exist, varints
\* that do not end
WalkMalformed ==
    { <<>>, <<8, 1>>,
      FieldVarint \o FieldFixed32 \o <<3 * 8 + WireFixed64, 1, 2, 3>>,
      FieldVarint \o FieldFixed32 \o <<5 * 8 + WireFixed32, 1, 2>>,
      FieldVarint \o FieldFixed32 \o <<4 * 8 + WireLengthDelimited, 5, 1, 2>>,
      FieldVarint \o FieldFixed32 \o <<2 * 8 + WireLengthDelimited, 5, 8, 1>>,
      FieldVarint \o FieldFixed32 \o <<3 * 8 + 3, 0>>,
      FieldVarint \o FieldFixed32 \o <<3 * 8 + 7, 0>>,
      FieldVarint \o FieldFixed32 \o <<8, 129>>,
      FieldVarint \o FieldFixed32 \o <<128 + 8>>,
      <<8, 255, 255, 255, 255, 255, 255, 255, 255, 255, 255, 1>>,
      <<2 * 8 + WireLengthDelimited, 6, 3 * 8 + WireFixed64, 1, 2, 3, 4, 5>>,
      <<2 * 8 + WireLengthDelimited, 6, 3 * 8 + 4, 1, 2, 3, 4, 5>>,
      <<2 * 8 + WireLengthDelimited, 6, 3 * 8 + WireLengthDelimited, 9,
        2, 3, 4, 5>>,
      <<2 * 8 + WireLengthDelimited, 6, 5 * 8 + WireFixed32, 1, 2, 3, 4, 0>>,
      WrapToStart, WrapCandidate, WrapByOne, FieldFixed32 \o WrapToStart,
      WrapInside(11), WrapInside(13), WrapInside(1) }

\* well-formed buffers: fields, a timestamp field, possibly a second one
WalkWellFormed ==
    { ExtractBuffer(in) :
        in \in [pre : ExtractPrefixes, field : { 2, 10, 3 },
                seconds : { NatToVal(42) },
                nanos : { NatToVal(5), NatToVal(kNanosPerSecond) },
                omit_zero : { FALSE }, post : ExtractSuffixes] }

WalkBuffers == WalkMalformed \cup WalkWellFormed

\* the call: the size test before the loop
WalkBeginAct ==
    /\ codec = "walk"
    /\ fout.ret = "idle"
    /\ fout' = IF Len(fin) < kMinTimestampBufferSize
               THEN [fout EXCEPT !.ret = "nullopt"]
               ELSE [fout EXCEPT !.ret = "running"]
    /\ last' = Call("OsiFileAnalyzer::ExtractTimestampNanoseconds", fout'.ret)
    /\ UNCHANGED <<codec, phase, fs, br, bw, tr, tw, mr, mw, fin>>

\* one iteration of the loop over the top-level fields, or its end
WalkTopAct ==
    /\ codec = "walk"
    /\ fout.ret = "running"
    /\ ~fout.in_sub
    /\ LET st == ExtractStep(fin, fout.pos)
       IN  fout' =
               IF fout.pos > Len(fin)
               THEN [fout EXCEPT !.odd = ~@, !.ret = "nullopt", !.reads = {}]
               ELSE IF st.kind = "return"
               THEN [fout EXCEPT !.odd = ~@,
                                 !.ret = "nullopt", !.reads = st.reads,
                                 !.limit = Len(fin)]
               ELSE IF st.kind = "next"
               THEN [fout EXCEPT !.odd = ~@,
                                 !.pos = st.next, !.reads = st.reads,
                                 !.limit = Len(fin)]
               ELSE [fout EXCEPT !.odd = ~@,
                                 !.in_sub = TRUE, !.cursor = st.start,
                                 !.end = st.next - 1, !.next = st.next,
                                 !.acc = NoTimestampFields,
                                 !.reads = st.reads, !.limit = Len(fin)]
    /\ last' = Call("OsiFileAnalyzer::ExtractTimestampNanoseconds", fout'.ret)
    /\ UNCHANGED <<codec, phase, fs, br, bw, tr, tw, mr, mw, fin>>

\* one iteration of the loop of parse_timestamp_submessage, or its end: the
\* timestamp is returned, or the top-level loop goes on after the field
WalkSubAct ==
    /\ codec = "walk"
    /\ fout.ret = "running"
    /\ fout.in_sub
    /\ LET st == ParseTimestampStep(fin, fout.cursor, fout.end, fout.acc)
       IN  fout' =
               IF fout.cursor > fout.end
               THEN LET ts == ParseTimestampFields(fin, fout.cursor, fout.end,
                                                   fout.acc)
                    IN  IF ts.has
                        THEN [fout EXCEPT !.odd = ~@,
                                          !.ret = "value", !.ns = ts.ns,
                                          !.reads = {}]
                        ELSE [fout EXCEPT !.odd = ~@,
                                          !.in_sub = FALSE, !.pos = fout.next,
                                          !.reads = {}]
               ELSE IF st.fail
               THEN [fout EXCEPT !.odd = ~@,
                                 !.in_sub = FALSE, !.pos = fout.next,
                                 !.reads = st.reads, !.limit = fout.end]
               ELSE [fout EXCEPT !.odd = ~@,
                                 !.cursor = st.next, !.acc = st.acc,
                                 !.reads = st.reads, !.limit = fout.end]
    /\ last' = Call("OsiFileAnalyzer::ExtractTimestampNanoseconds", fout'.ret)
    /\ UNCHANGED <<codec, phase, fs, br, bw, tr, tw, mr, mw, fin>>

InitWalk ==
    /\ codec = "walk"
    /\ fs = InitialFs(PathGt, <<>>)
    /\ Constructed
    /\ fin \in WalkBuffers
    /\ fout = WalkIdle

NextWalk == WalkBeginAct \/ WalkTopAct \/ WalkSubAct

SpecWalk == InitWalk /\ [][NextWalk]_vars

\* the iterations agree with the function as a whole on the buffers on which
\* it returns
WalkReturnsExtract ==
    (codec = "walk" /\ fout.ret \in { "nullopt", "value" })
        => LET ts == ExtractTimestampNanoseconds(fin)
           IN  /\ ts.has = (fout.ret = "value")
               /\ ts.has => ts.ns = fout.ns

(***************************************************************************)
(* How the walker passes over a top-level field                            *)
(***************************************************************************)
\* the index after the top-level field of b at index i, with the declared
\* length taken as the number it is; 0 for an unknown wire type, a varint
\* that does not end within ten bytes and a field that ends after the buffer
FieldEnd(b, i) ==
    LET t == ReadVarint(b, i)
        wire_type == t.groups[1] % 8
        fits(nxt) == IF nxt > Len(b) + 1 THEN 0 ELSE nxt
    IN  IF ~t.ok THEN 0
        ELSE IF wire_type = WireVarint
        THEN LET v == ReadVarint(b, t.next) IN IF v.ok THEN v.next ELSE 0
        ELSE IF wire_type = WireFixed64 THEN fits(t.next + 8)
        ELSE IF wire_type = WireLengthDelimited
        THEN LET l == ReadVarint(b, t.next)
                 declared == ValToNat(Val64(l.groups))
             IN  IF ~l.ok \/ declared > Len(b) THEN 0
                 ELSE fits(l.next + declared)
        ELSE IF wire_type = WireFixed32 THEN fits(t.next + 4)
        ELSE 0

\* the top-level field of b at index i is length-delimited with number 2 or 10
CandidateField(b, i) ==
    LET t == ReadVarint(b, i)
    IN  /\ t.ok
        /\ t.groups[1] % 8 = WireLengthDelimited
        /\ AnalyzerFieldNum(t.groups) \in { 2, 10 }

\* the declared length of the length-delimited field of b at index i is
\* 2^63 or more
HugeLength(b, i) ==
    LET t == ReadVarint(b, i)
        l == ReadVarint(b, t.next)
    IN  /\ t.ok
        /\ t.groups[1] % 8 = WireLengthDelimited
        /\ l.ok
        /\ Len(Val64(l.groups)) = 10

\* the iteration at the top-level cursor passes over the field as stated
SkipsAsStated(b, i) ==
    LET st == ExtractStep(b, i)
    IN  /\ FieldEnd(b, i) = 0 => st.kind = "return"
        /\ (FieldEnd(b, i) # 0 /\ ~CandidateField(b, i))
               => (st.kind = "next" /\ st.next = FieldEnd(b, i))

\* the walker is about to look at a top-level field
AtTopLevelField ==
    /\ codec = "walk"
    /\ fout.ret = "running"
    /\ ~fout.in_sub
    /\ fout.pos <= Len(fin)

\* C33: for every top-level field that is not a length-delimited field 2 or
\* 10 the walker moves its cursor by the encoded size of the field and goes
\* on with the next field, and on an unknown wire type or a field that ends
\* after the buffer it returns no timestamp.
C33_SkipSemantics == AtTopLevelField => SkipsAsStated(fin, fout.pos)

\* The fields are passed over as stated when no declared length is 2^63 or
\* more.
SkipsAsStatedBelowTwoTo63 ==
    (AtTopLevelField /\ ~HugeLength(fin, fout.pos))
        => SkipsAsStated(fin, fout.pos)

(***************************************************************************)
(* Progress of the walker                                                  *)
(***************************************************************************)
\* an iteration that leaves the call in its loops has moved the cursor of
\* its loop forward; the end of parse_timestamp_submessage without a
\* timestamp completes an iteration of the top-level loop
CursorMoved ==
    (codec = "walk" /\ fout.ret = "running" /\ fout'.ret = "running")
        => /\ (~fout.in_sub /\ ~fout'.in_sub) => fout'.pos > fout.pos
           /\ (fout.in_sub /\ fout'.in_sub) => fout'.cursor > fout.cursor
           /\ (fout.in_sub /\ ~fout'.in_sub) => fout'.pos > fout.pos

\* b holds ten bytes in a row that encode a varint of 2^63 or more
HoldsTenByteVarint(b) ==
    \E i \in 1..(Len(b) - 9) :
        /\ \A k \in 0..8 : b[i + k] >= 128
        /\ b[i + 9] > 0

\* C35: ExtractTimestampNanoseconds terminates on every buffer: every
\* iteration of the top-level loop and of the loop over the submessage
\* moves its cursor forward, also when a declared length makes
\* cursor + length pass 2^64.
C35_CursorIncreases == [][CursorMoved]_vars

\* Every iteration moves its cursor forward on the buffers that hold no
\* varint of 2^63 or more.
CursorIncreasesBelowTwoTo63 ==
    [][~HoldsTenByteVarint(fin) => CursorMoved]_vars

(***************************************************************************)
(* Bounds of the reads of the walker                                       *)
(***************************************************************************)
\* C36: every index that ExtractTimestampNanoseconds dereferences, in the
\* top-level loop and in the loop over a submessage, lies inside the buffer,
\* and the end of a submessage is not after the end of the buffer, also
\* when declared lengths are close to 2^64.
C36_ReadsInsideBuffer ==
    codec = "walk" =>
        /\ \A k \in fout.reads : 1 <= k /\ k <= Len(fin)
        /\ fout.limit <= Len(fin)
        /\ fout.in_sub => fout.end <= Len(fin)

\* in a submessage that holds a declared length of 2^64 - 13 the cursor has
\* gone back before the start of the submessage, and the bytes there have
\* been read
C36_Witness ==
    /\ codec = "walk"
    /\ fin = WrapInside(13)
    /\ fout.ret = "running"
    /\ fout.in_sub
    /\ fout.cursor = 14
    /\ fout.reads = { 1, 2 }
    /\ fout.end = 13

(***************************************************************************)
(* The walker against the generated parser                                 *)
(***************************************************************************)
\* the input is the serialization of a message of a supported kind whose
\* timestamp field is present: fields the walker passes over, then the
\* timestamp field of the kind, with nanos a uint32
SerializedWithTimestamp(in) ==
    /\ in.field \in { 2, 10 }
    /\ in.post = <<>>
    /\ Val32(in.nanos) = in.nanos

\* a kind whose timestamp has the given field number
KindWithTimestampField(field) ==
    IF field = 10 THEN "kHostVehicleData" ELSE "kGroundTruth"

\* what the generated parser decodes from the buffer of the input
ParsedFrom(in) ==
    ParseFromArray(KindWithTimestampField(in.field), ExtractBuffer(in))

\* C34: for every serialized top-level message of a supported kind in which
\* the timestamp field is present, the walker extracts seconds * 10^9 + nanos
\* of the timestamp that the generated parser decodes from the same bytes.
C34_AgreesWithParser ==
    (codec = "extract" /\ last # NoCall /\ SerializedWithTimestamp(fin))
        => LET p == ParsedFrom(fin)
           IN  /\ p.ok
               /\ p.message.has_timestamp
               /\ fout.has
               /\ fout.ns = ExactNs(p.message.seconds, p.message.nanos)

\* The parser decodes every such message, and the walker agrees with it
\* when it extracts a value, and extracts one when the buffer has six bytes
\* or more and the timestamp encodes seconds or nanos, with seconds >= 0 and
\* nanos < 10^9.
AgreesWithParserWhenExtracted ==
    (codec = "extract" /\ last # NoCall /\ SerializedWithTimestamp(fin))
        => LET p == ParsedFrom(fin)
               encoded == ~(fin.omit_zero /\ fin.seconds = <<>>
                               /\ fin.nanos = <<>>)
           IN  /\ p.ok
               /\ p.message.has_timestamp
               /\ p.message.seconds = Val64(fin.seconds)
               /\ p.message.nanos = fin.nanos
               /\ fout.has =>
                      fout.ns = AnalyzerTimestampNs(p.message.seconds,
                                                    p.message.nanos)
               /\ (encoded /\ Len(ExtractBuffer(fin)) >= kMinTimestampBufferSize
                      /\ ~SecondsNegative(fin.seconds) /\ BelowE9(fin.nanos))
                      => fout.has

(***************************************************************************)
(* The MCAP writer opened again after Close()                              *)
(***************************************************************************)
\* writer w behaves as a newly constructed writer that was just opened:
\* the required metadata is missing and is accepted, no topic is known, and
\* a topic added now is registered in the file so that a message on it is
\* written
BehavesAsNewlyOpened(w) ==
    LET md == McapWriterAddFileMetadata(w, PrepareRequiredFileMetadata)
    IN  /\ \A t \in Topics : ~McapWriterWriteMessage(w, MsgHvd, t).ret
        /\ md.ret
        /\ \A t \in Topics :
               /\ ~McapWriterWriteMessage(md.w, MsgHvd, t).ret
               /\ LET c == McapWriterAddChannel(md.w, t, MsgHvd.kind)
                  IN  /\ ~c.raise
                      /\ McapWriterWriteMessage(c.w, MsgHvd, t).ret

\* C37: after Close() and a successful Open() the MCAP writer behaves as a
\* newly constructed writer that was just opened: no topic and no schema is
\* registered and the required metadata counts as not added.
C37_ReopenedAsNew ==
    (codec = "mcap" /\ phase = "write" /\ last.op = "McapWriter::Close")
        => \A p \in McapWriterOpenPaths :
               LET o == McapWriterOpen(mw, p)
               IN  o.ret => BehavesAsNewlyOpened(o.w)

\* A newly constructed writer that was just opened behaves so, and so does
\* a writer opened again on which neither the required metadata nor a
\* channel was added before.
NewlyOpenedBehavesSo ==
    \A p \in McapWriterOpenPaths :
        /\ LET o == McapWriterOpen(McapWriterInit, p)
           IN  o.ret => BehavesAsNewlyOpened(o.w)
        /\ (codec = "mcap" /\ phase = "write"
               /\ last.op = "McapWriter::Close"
               /\ ~mw.required_metadata_added_
               /\ \A t \in Topics : mw.topic_to_channel_id_[t] = 0)
              => LET o == McapWriterOpen(mw, p)
                 IN  o.ret => BehavesAsNewlyOpened(o.w)

(***************************************************************************)
(* AddFileMetadata that returns false                                      *)
(***************************************************************************)
\* C38: when AddFileMetadata has returned false for a net.asam.osi.trace
\* record and no call has returned true for one, the writer is as before:
\* the required metadata counts as not added, a later WriteMessage is still
\* rejected for missing metadata, and a later AddFileMetadata of the record
\* is not rejected as a duplicate.
C38_FailedMetadataLeavesWriter ==
    (codec = "mcap" /\ phase = "write" /\ fout = "none"
        /\ last = Call("McapWriter::AddFileMetadata", "false"))
        => /\ ~mw.required_metadata_added_
           /\ \A t \in Topics : ~McapWriterWriteMessage(mw, MsgHvd, t).ret
           /\ mw.mcap_writer_.opened =>
                  McapWriterAddFileMetadata(mw, PrepareRequiredFileMetadata).ret

\* A call that returns false on a writer whose file is open leaves the
\* writer as it was.
FailedMetadataLeavesOpenWriter ==
    (codec = "mcap" /\ phase = "write" /\ mw.mcap_writer_.opened)
        => \A md \in MetadataInputs :
               LET o == McapWriterAddFileMetadata(mw, md)
               IN  (md.name = RequiredMetadataName /\ ~o.ret) => o.w = mw

(***************************************************************************)
(* The last record of a text file that does not end with a newline         *)
(***************************************************************************)
\* text t with its last line terminated
Terminated(t) == IF t = <<>> \/ t[Len(t)] = NL THEN t ELSE t \o <<NL>>

\* successive ReadMessage calls of reader r hand over every line of the
\* records of d that start at the offsets todo, in file order
RECURSIVE ReadsRecordLines(_, _, _)
ReadsRecordLines(r, d, todo) ==
    IF todo = {} THEN TRUE
    ELSE LET s == CHOOSE t \in todo : \A u \in todo : t <= u
             h == ReaderHasNext(r.trace_file_)
             f == TxthReadNextMessageFromFile([r EXCEPT !.trace_file_ = h.s])
             o == TxthReaderReadMessage(r)
         IN  /\ h.ret
             /\ o.ret # "nullopt"
             /\ Terminated(f.message) = Terminated(RecordAt(d, s))
             /\ ReadsRecordLines(o.r, d, todo \ {s})

\* C39: the text that the text reader returns for the last record of a
\* file holds every line of the record, also when the file does not end
\* with a newline: the last line is not dropped, and a last line equal to
\* the sentinel starts a record.
C39_LastRecordComplete ==
    \A p \in TxthPaths :
        \A o \in TxthReaderOpenKind(TxthReaderInit, p, "kGroundTruth") :
            (o.ret /\ fs[p].data # <<>> /\ LineAt(fs[p].data, 0) # <<>>)
                => ReadsRecordLines(o.r, fs[p].data, RecordStarts(fs[p].data))

(***************************************************************************)
(* The sample indices of Analyze (OsiFileAnalyzer.cpp:97-110) and the      *)
(* frames pass 2 reads with them (OsiFileAnalyzer.cpp:120-156).            *)
(***************************************************************************)
\* the sequence is strictly increasing, starts at 0, ends at n - 1 and stays
\* below n
EvenlySpread(indices, n) ==
    /\ indices # <<>>
    /\ indices[1] = 0
    /\ indices[Len(indices)] = n - 1
    /\ \A j \in 1..Len(indices) : indices[j] >= 0 /\ indices[j] < n
    /\ \A j \in 1..(Len(indices) - 1) : indices[j] < indices[j + 1]

====
